---------------------------- MODULE Spec2Model ----------------------------
(***************************************************************************)
(* A model of the request/response bridge of AIStudioToAPI:                *)
(*   - MessageQueue        (src/src/utils/MessageQueue.js, class at 129)   *)
(*   - ConnectionRegistry  (src/src/core/ConnectionRegistry.js)            *)
(*   - the queue life cycle of the request handlers                        *)
(*                         (src/src/core/RequestHandler.js)                *)
(* Node.js runs every callback to completion, so each action below is one  *)
(* synchronous stretch of code: a method call, a timer callback, or the    *)
(* part of an async function between two awaits.                           *)
(***************************************************************************)
EXTENDS Integers, Sequences, FiniteSets, TLC

(* ------------------------------ bounds -------------------------------- *)
\* the queue on its own
MaxEnq == 3         \* enqueue calls in one behaviour
MaxDeq == 3         \* dequeue calls in one behaviour
MaxClose == 2       \* close calls in one behaviour
\* the registry
MaxQueues == 2      \* MessageQueue objects the registry constructs
MaxFrames == 1      \* agent frames that reach a queue (dropped ones are free)
MaxWaiters == 1     \* dequeue calls of the queues' consumers
MaxTimers == 2      \* grace timers started in one behaviour

Sockets == {"s1", "s2"}

Null == "null"

\* reason codes of QueueClosedError (spec section 7); Undefined is a call
\* that passes no argument
Undefined == "undefined"
Reasons == {"unknown", "connection_lost", "replaced_on_retry"}
ReasonArgs == Reasons \cup {Undefined}

RequestIds == {"r1", "r2"}

\* authSource.getRotationIndices(): the identities, in rotation order
Identities == {0, 1}

\* the deep links of upstream apps (/apps/<id>) and the blank-app URL
Links == {"app1", "app2", "app3"}
BlankUrl == "blank"

\* event_type values an agent frame may carry; "bogus" stands for any
\* value _routeMessage does not know
EventTypes == {"response_headers", "chunk", "error", "stream_close", "bogus"}

\* a frame as an object: seq is the identity of the enqueued object (the
\* number of the enqueue call that passed it), the other fields its content
Message(id, et) ==
    [request_id |-> id, event_type |-> et, type |-> Null, status |-> 0]
StreamEnd ==
    [request_id |-> Null, event_type |-> Null, type |-> "STREAM_END", status |-> 0]
NoValue == [request_id |-> Null, event_type |-> Null, type |-> Null, status |-> 0]
Frame(n, m) == [seq |-> n, val |-> m]
NoFrame == Frame(0, NoValue)

VARIABLES
    queues,       \* the MessageQueue objects constructed so far (a sequence)
    resolvers,    \* one entry per dequeue call: its promise and its resolver
    timers,       \* dequeue timeouts set and neither fired nor cleared
    delivered,    \* frames handed to a consumer, in the order of delivery
    enqCount,     \* number of enqueue calls so far
    closeCount,   \* number of direct close calls on the stand-alone queue
    lastClose,    \* per queue, the argument of the latest close call (Null: none)
    connections,          \* ConnectionRegistry.connections
    messageQueues,        \* ConnectionRegistry.messageQueues: id -> queue
    reconnectGraceTimer,  \* ConnectionRegistry.reconnectGraceTimer
    isReconnecting,       \* ConnectionRegistry.isReconnecting
    graceTimers,  \* grace timers set and neither fired nor cleared
    timerCount,   \* grace timers started so far
    lostPc,       \* grace-timer callbacks suspended in await onConnectionLostCallback()
    cbRuns,       \* invocations of onConnectionLostCallback so far
    fired,        \* the grace timers that have expired
    reopened,     \* the grace timers during whose 60 s a socket opened
    req,          \* per request: where its handler stands and its locals
    running,      \* the request whose handler is running synchronous code
    currentAuthIndex,   \* the active identity, -1 for none
    usageCount,         \* AuthSwitcher.usageCount
    failureCount,       \* AuthSwitcher.failureCount
    isSystemBusy,       \* AuthSwitcher.isSystemBusy
    needsSwitchingAfterRequest,  \* RequestHandler.needsSwitchingAfterRequest
    ops,          \* the switches and recoveries in progress
    opCount,      \* switches and recoveries started so far
    outbound,     \* the frames sent to agents
    queueAuth,    \* the identity each registered queue is bound to
    hist,         \* what has happened on the current identity, for the claims
    manager,      \* BrowserManager, the identity files and the upstream apps
    vnc,          \* CreateAuth: the VNC operation lock and the setup calls
    agent,        \* the ProxySystem that runs in the page of an identity
    ev            \* the last operation and its arguments

qvars == <<queues, resolvers, timers, delivered, enqCount, closeCount,
           lastClose>>
rvars == <<connections, messageQueues, reconnectGraceTimer, isReconnecting,
           graceTimers, timerCount, lostPc, cbRuns, fired, reopened>>
pvars == <<req, running>>
swvars == <<currentAuthIndex, usageCount, failureCount, isSystemBusy,
            needsSwitchingAfterRequest, ops, opCount, outbound, queueAuth, hist>>
svars == <<swvars, manager, vnc, agent>>
vars == <<qvars, rvars, pvars, svars, ev>>

(* ----------------------------- MessageQueue --------------------------- *)
\* The heap of queue objects, promises and timers as one value, so that a
\* method is a function from heap to heap and a caller can chain calls.
Heap == [queues |-> queues, resolvers |-> resolvers, timers |-> timers,
         delivered |-> delivered, enqCount |-> enqCount,
         lastClose |-> lastClose]

SetHeap(H) ==
    /\ queues' = H.queues
    /\ resolvers' = H.resolvers
    /\ timers' = H.timers
    /\ delivered' = H.delivered
    /\ enqCount' = H.enqCount
    /\ lastClose' = H.lastClose

\* constructor(): messages = [], waitingResolvers = [], closed = false,
\* closeReason = null
NewQueue == [messages |-> <<>>, waitingResolvers |-> <<>>, closed |-> FALSE,
             closeReason |-> Null]

\* new MessageQueue(): the new object is number Len(queues) + 1
Construct(H) == [H EXCEPT !.queues = Append(@, NewQueue),
                          !.lastClose = Append(@, Null)]

Pending == [kind |-> "pending", frame |-> NoFrame, reason |-> Null]
Resolved(f) == [kind |-> "frame", frame |-> f, reason |-> Null]
TimedOut == [kind |-> "timeout", frame |-> NoFrame, reason |-> Null]
Closed(r) == [kind |-> "closed", frame |-> NoFrame, reason |-> r]

\* resolve(f) / reject(e) of the promise of dequeue call r: the first call
\* settles the promise, a later call has no effect on it; the calls
\* themselves are recorded.
Settle(H, r, out) ==
    LET p == H.resolvers[r]
        first == p.outcome.kind = "pending"
        isRes == out.kind = "frame"
    IN  [H EXCEPT
           !.resolvers[r] = [p EXCEPT
               !.outcome = IF first THEN out ELSE @,
               !.resolveCalled = @ \/ isRes,
               !.rejectCalled = @ \/ ~isRes],
           !.delivered = IF first /\ isRes THEN Append(@, out.frame.seq) ELSE @]

IndexOf(s, x) ==
    IF \E i \in 1..Len(s) : s[i] = x
    THEN CHOOSE i \in 1..Len(s) : s[i] = x /\ \A j \in 1..(i - 1) : s[j] # x
    ELSE 0

Splice(s, i) == SubSeq(s, 1, i - 1) \o SubSeq(s, i + 1, Len(s))

EnqueueKeepsTimer(H, q, m) ==
    LET Q == H.queues[q]
        f == Frame(H.enqCount + 1, m)
        H1 == [H EXCEPT !.enqCount = @ + 1]
    IN  IF Q.closed THEN H1
        ELSE IF Len(Q.waitingResolvers) > 0
        THEN LET r == Head(Q.waitingResolvers)
                 H2 == [H1 EXCEPT !.queues[q].waitingResolvers = Tail(@)]
             IN  IF H2.resolvers[r].timeoutId # 0
                 THEN Settle(H2, r, Resolved(f))
                 ELSE [H2 EXCEPT !.queues[q].messages = Append(@, f)]
        ELSE [H1 EXCEPT !.queues[q].messages = Append(@, f)]

EnqueueIgnoresClosed(H, q, m) ==
    LET Q == H.queues[q]
        f == Frame(H.enqCount + 1, m)
        H1 == [H EXCEPT !.enqCount = @ + 1]
    IN  IF Len(Q.waitingResolvers) > 0
        THEN LET r == Head(Q.waitingResolvers)
                 H2 == [H1 EXCEPT !.queues[q].waitingResolvers = Tail(@)]
             IN  IF H2.resolvers[r].timeoutId # 0
                 THEN Settle([H2 EXCEPT !.timers = @ \ {r}], r, Resolved(f))
                 ELSE [H2 EXCEPT !.queues[q].messages = Append(@, f)]
        ELSE [H1 EXCEPT !.queues[q].messages = Append(@, f)]

\* enqueue(message)
Enqueue(H, q, m) ==
    LET Q == H.queues[q]
        f == Frame(H.enqCount + 1, m)
        H1 == [H EXCEPT !.enqCount = @ + 1]
    IN  IF Q.closed THEN H1
        ELSE IF Len(Q.waitingResolvers) > 0
        THEN LET r == Head(Q.waitingResolvers)
                 H2 == [H1 EXCEPT !.queues[q].waitingResolvers = Tail(@)]
             IN  IF H2.resolvers[r].timeoutId # 0
                 THEN Settle([H2 EXCEPT !.timers = @ \ {r}], r, Resolved(f))
                 ELSE [H2 EXCEPT !.queues[q].messages = Append(@, f)]
        ELSE [H1 EXCEPT !.queues[q].messages = Append(@, f)]

\* timeoutId: the timer handle, a positive number; 0 is null
NewResolver(q) == [queue |-> q, timeoutId |-> 0, outcome |-> Pending,
                   resolveCalled |-> FALSE, rejectCalled |-> FALSE]

DequeueNoShift(H, q) ==
    LET Q == H.queues[q]
        r == Len(H.resolvers) + 1
        H1 == [H EXCEPT !.resolvers = Append(@, NewResolver(q))]
    IN  IF Q.closed
        THEN Settle(H1, r, Closed(IF Q.closeReason = Null THEN "unknown"
                                  ELSE Q.closeReason))
        ELSE IF Len(Q.messages) > 0
        THEN Settle(H1, r, Resolved(Q.messages[1]))
        ELSE [H1 EXCEPT !.queues[q].waitingResolvers = Append(@, r),
                        !.resolvers[r].timeoutId = r,
                        !.timers = @ \cup {r}]

DequeueDefaultReason(H, q) ==
    LET Q == H.queues[q]
        r == Len(H.resolvers) + 1
        H1 == [H EXCEPT !.resolvers = Append(@, NewResolver(q))]
    IN  IF Q.closed
        THEN Settle(H1, r, Closed("unknown"))
        ELSE IF Len(Q.messages) > 0
        THEN Settle([H1 EXCEPT !.queues[q].messages = Tail(@)], r,
                    Resolved(Q.messages[1]))
        ELSE [H1 EXCEPT !.queues[q].waitingResolvers = Append(@, r),
                        !.resolvers[r].timeoutId = r,
                        !.timers = @ \cup {r}]

\* dequeue(timeoutMs): the call up to the promise it returns. The new
\* promise is number Len(resolvers) + 1; its timer handle is that number.
Dequeue(H, q) ==
    LET Q == H.queues[q]
        r == Len(H.resolvers) + 1
        H1 == [H EXCEPT !.resolvers = Append(@, NewResolver(q))]
    IN  IF Q.closed
        THEN Settle(H1, r, Closed(IF Q.closeReason = Null THEN "unknown"
                                  ELSE Q.closeReason))
        ELSE IF Len(Q.messages) > 0
        THEN Settle([H1 EXCEPT !.queues[q].messages = Tail(@)], r,
                    Resolved(Q.messages[1]))
        ELSE [H1 EXCEPT !.queues[q].waitingResolvers = Append(@, r),
                        !.resolvers[r].timeoutId = r,
                        !.timers = @ \cup {r}]

\* the setTimeout callback of dequeue call r
DequeueTimeout(H, r) ==
    LET q == H.resolvers[r].queue
        i == IndexOf(H.queues[q].waitingResolvers, r)
        H1 == [H EXCEPT !.timers = @ \ {r}]
        H2 == IF i # 0
              THEN [H1 EXCEPT !.queues[q].waitingResolvers = Splice(@, i)]
              ELSE H1
    IN  Settle([H2 EXCEPT !.resolvers[r].timeoutId = 0], r, TimedOut)

RECURSIVE RejectAll(_, _, _)
RejectAll(H, ws, reason) ==
    IF ws = <<>> THEN H
    ELSE RejectAll(Settle([H EXCEPT !.timers = @ \ {Head(ws)}], Head(ws),
                          Closed(reason)),
                   Tail(ws), reason)

\* close(reason = "unknown")
Close(H, q, arg) ==
    LET reason == IF arg = Undefined THEN "unknown" ELSE arg
        H1 == [H EXCEPT !.queues[q].closed = TRUE,
                        !.queues[q].closeReason = reason]
        H2 == RejectAll(H1, H.queues[q].waitingResolvers, reason)
    IN  [H2 EXCEPT !.queues[q].waitingResolvers = <<>>,
                   !.queues[q].messages = <<>>]

(* --------------------- the queue on its own --------------------------- *)
\* Any client of one MessageQueue: it calls enqueue, dequeue and close in
\* any order, and the timers of parked dequeues fire at any time.
Ev(op, q, r, arg, msg) ==
    [op |-> op, q |-> q, r |-> r, arg |-> arg, msg |-> msg, qs |-> {},
     calls |-> {}]

\* a call of close from outside the queue, with the argument it passed
CallClose(H, q, arg) == [Close(H, q, arg) EXCEPT !.lastClose[q] = arg]

\* a request that has not arrived: pc is the handler's position, mode the
\* response path it takes, queue its messageQueue / currentQueue, awaiting
\* the dequeue promise it awaits, attempt the retry loop's counter, ended
\* res.writableEnded, hooked whether its close handler is registered, gone
\* whether the client has closed the connection
\* generative is proxyRequest.is_generative, auth the retry loop's
\* currentQueueAuthIndex, status the HTTP status the handler answered (0:
\* none set), headersSent res.headersSent, error the status it sends once
\* the switch it awaits has settled, direct the recovery's wasDirectRecovery,
\* marked whether it is the request that set needsSwitchingAfterRequest,
\* fullData the parsed body the pseudo-stream path has accumulated, written
\* the SSE data records it has written to the response
NewRequest == [pc |-> "new", mode |-> Null, queue |-> 0, awaiting |-> 0,
               attempt |-> 0, ended |-> FALSE, hooked |-> FALSE, gone |-> FALSE,
               generative |-> FALSE, auth |-> -1, status |-> 0,
               headersSent |-> FALSE, error |-> 0, direct |-> FALSE,
               marked |-> FALSE,
               fullData |-> [parts |-> <<>>, finishReason |-> Null],
               written |-> <<>>]

\* setter: who set isSystemBusy ("switcher", "pipeline", Null when clear);
\* arrivals: the requests that have arrived; uses: the generative requests
\* that passed the gate since the identity was activated; spawns: the background
\* rotations scheduled since then; streak: the requests that have failed on
\* it since the last success
NoHistory == [setter |-> Null, arrivals |-> 0, uses |-> 0, spawns |-> 0,
              streak |-> 0]

\* BrowserManager with the files it reads and the apps it navigates to.
\* appUrl: the appUrl field of configs/auth/auth-<i>.json (Null: absent);
\* made: the links Remix has produced, live: those whose app still exists;
\* pc: where launchOrSwitchContext or attemptLightweightReconnect stands,
\* authIndex its identity, reconnect whether it is the reconnect;
\* browser: this.browser is set, current: _currentAuthIndex; url: page.url(),
\* usingSavedUrl: the local of _navigateAndWakeUpPage, visited: the targets of
\* page.goto in this activation; stale: per identity, the saved links that
\* led to a page-not-found; n: the activations started; page: this.page (0:
\* null), pages: the pages opened so far; healthMonitorInterval: whether the
\* interval of _startHealthMonitor is set; wake: the pages whose
\* _startBackgroundWakeup loop is running; systemInitialized: the local of
\* _injectScriptToEditor in the latest injection
NoManager ==
    [appUrl |-> [i \in Identities |-> Null], made |-> {}, live |-> {},
     pc |-> "idle", authIndex |-> -1, reconnect |-> FALSE,
     browser |-> FALSE, current |-> -1, url |-> Null,
     usingSavedUrl |-> FALSE, visited |-> <<>>,
     stale |-> [i \in Identities |-> {}], n |-> 0,
     page |-> 0, pages |-> 0, healthMonitorInterval |-> FALSE, wake |-> {},
     systemInitialized |-> FALSE]

\* the requests for a VNC session, numbered in their order of arrival
MaxVncRequests == 3
VncRequests == 1..MaxVncRequests

\* CreateAuth after construction.  currentVncAbortController is the number
\* of the call that made the controller (0: null), aborted the controllers
\* whose abort() was called, arrived the number of startVncSession calls so
\* far; per call: pc ("new", "waiting" in the loop on the lock, "setup"
\* inside the try block, "cleanup" inside the catch block, "returned"),
\* status (of its response, 0: none yet), error (what the catch block
\* caught) and found (the call that held the lock when this one arrived,
\* 0: none)
NoVnc ==
    [isVncOperationInProgress |-> FALSE, currentVncAbortController |-> 0,
     aborted |-> {}, arrived |-> 0,
     calls |-> [n \in VncRequests |->
                  [pc |-> "new", status |-> 0, error |-> Null, found |-> 0]]]

\* the ProxySystem of a page after construction.  activeOperations maps a
\* request id to the invocation whose controller it holds (0: no entry);
\* tasks are the invocations of _processProxyRequest so far: id, mode, k
\* (the attempt of the proxy_request that started it), pc ("fetch", "read",
\* "done"), aborted (signal.aborted of its controller), fullBody, reads (the
\* texts decoded from the chunks read), frames (the frames it transmitted)
\* and refused (why it did not call execute: Null, "stale", "live"); seen are
\* the server's frames handled so far, wire the frames transmitted and not
\* yet received by the server, tags the attempt of the frame of each
\* enqueue call, stale the ids whose cancel_request came while no invocation
\* for the id was running
NoAgent ==
    [activeOperations |-> [id \in RequestIds |-> 0],
     cancelledOperations |-> {}, tasks |-> <<>>, seen |-> {}, wire |-> <<>>,
     tags |-> {}, stale |-> {}]

\* no identity is active and the switcher is idle
SwitcherInit ==
    /\ currentAuthIndex = -1
    /\ usageCount = 0
    /\ failureCount = 0
    /\ isSystemBusy = FALSE
    /\ needsSwitchingAfterRequest = FALSE
    /\ ops = {}
    /\ opCount = 0
    /\ outbound = {}
    /\ queueAuth = [id \in RequestIds |-> -1]
    /\ hist = NoHistory
    /\ manager = NoManager
    /\ vnc = NoVnc
    /\ agent = NoAgent

PipelineInit ==
    /\ req = [r \in RequestIds |-> NewRequest]
    /\ running = Null
    /\ SwitcherInit

\* the promise handler r awaits has settled
Settled(r) ==
    /\ req[r].awaiting # 0
    /\ resolvers[req[r].awaiting].outcome.kind # "pending"

\* a continuation of handler r is queued as a microtask
Runnable(r) == req[r].pc \in {"first", "next"} /\ Settled(r)

\* the event loop is free to dispatch the next timer, socket or HTTP event
Quiet == running = Null /\ \A r \in RequestIds : ~Runnable(r)

\* a timer, socket or HTTP event is dispatched: no continuation is queued,
\* and no handler moves
Event == Quiet /\ UNCHANGED <<pvars, svars>>

RegistryInit ==
    /\ PipelineInit
    /\ connections = {}
    /\ messageQueues = [id \in RequestIds |-> 0]
    /\ reconnectGraceTimer = 0
    /\ isReconnecting = FALSE
    /\ graceTimers = {}
    /\ timerCount = 0
    /\ lostPc = {}
    /\ cbRuns = 0
    /\ fired = {}
    /\ reopened = {}

QueueInit ==
    /\ queues = <<NewQueue>>
    /\ resolvers = <<>>
    /\ timers = {}
    /\ delivered = <<>>
    /\ enqCount = 0
    /\ closeCount = 0
    /\ lastClose = <<Null>>
    /\ RegistryInit
    /\ ev = Ev("init", 0, 0, Null, NoValue)

QEnqueue ==
    /\ Event
    /\ enqCount < MaxEnq
    /\ \E m \in {Message("r1", "chunk")} :
          /\ SetHeap(Enqueue(Heap, 1, m))
          /\ ev' = Ev("enqueue", 1, 0, Null, m)
    /\ UNCHANGED <<closeCount, rvars>>

QDequeue ==
    /\ Event
    /\ Len(resolvers) < MaxDeq
    /\ SetHeap(Dequeue(Heap, 1))
    /\ ev' = Ev("dequeue", 1, Len(resolvers) + 1, Null, NoValue)
    /\ UNCHANGED <<closeCount, rvars>>

QTimeout ==
    /\ Event
    /\ \E r \in timers :
          /\ SetHeap(DequeueTimeout(Heap, r))
          /\ ev' = Ev("timeout", resolvers[r].queue, r, Null, NoValue)
    /\ UNCHANGED <<closeCount, rvars>>

QClose ==
    /\ Event
    /\ closeCount < MaxClose
    /\ closeCount' = closeCount + 1
    /\ \E arg \in ReasonArgs :
          /\ SetHeap(CallClose(Heap, 1, arg))
          /\ ev' = Ev("close", 1, 0, arg, NoValue)
    /\ UNCHANGED rvars

QueueNext == QEnqueue \/ QDequeue \/ QTimeout \/ QClose

SpecQueue == QueueInit /\ [][QueueNext]_vars

(* -------------------------- ConnectionRegistry ------------------------ *)
\* the queues the registry holds
Registered == {messageQueues[id] : id \in RequestIds} \ {0}

\* this.messageQueues.forEach(queue => queue.close())
RECURSIVE CloseAll(_, _)
CloseAll(H, qs) ==
    IF qs = {} THEN H
    ELSE LET q == CHOOSE x \in qs : TRUE
         IN  CloseAll(CallClose(H, q, Undefined), qs \ {q})

\* addConnection(websocket, clientInfo): socket s opens
AddConnection(s) ==
    /\ Event
    /\ s \notin connections
    /\ IF reconnectGraceTimer # 0
       THEN /\ graceTimers' = graceTimers \ {reconnectGraceTimer}
            /\ reconnectGraceTimer' = 0
            /\ SetHeap(CloseAll(Heap, Registered))
            /\ messageQueues' = [id \in RequestIds |-> 0]
            /\ ev' = [Ev("addConnection", 0, reconnectGraceTimer,
                         IF reconnectGraceTimer \in graceTimers
                         THEN "grace" ELSE "expired", NoValue)
                      EXCEPT !.qs = Registered]
       ELSE /\ UNCHANGED <<graceTimers, reconnectGraceTimer, messageQueues>>
            /\ SetHeap(Heap)
            /\ ev' = Ev("addConnection", 0, 0, "none", NoValue)
    /\ connections' = connections \cup {s}
    /\ reopened' = reopened \cup graceTimers
    /\ UNCHANGED <<closeCount, timerCount, isReconnecting, lostPc, cbRuns, fired>>

\* _removeConnection(websocket): the close event of socket s. The new
\* grace timer is number timerCount + 1.
RemoveConnection(s) ==
    /\ Event
    /\ s \in connections
    /\ connections' = connections \ {s}
    /\ timerCount' = timerCount + 1
    /\ graceTimers' = (graceTimers \ {reconnectGraceTimer}) \cup {timerCount + 1}
    /\ reconnectGraceTimer' = timerCount + 1
    /\ ev' = Ev("removeConnection", 0, timerCount + 1, Null, NoValue)
    /\ UNCHANGED <<qvars, messageQueues, isReconnecting, lostPc, cbRuns, fired,
                   reopened>>

GraceExpireNoGuard(t) ==
    /\ Event
    /\ t \in graceTimers
    /\ graceTimers' = graceTimers \ {t}
    /\ fired' = fired \cup {t}
    /\ SetHeap(CloseAll(Heap, Registered))
    /\ messageQueues' = [id \in RequestIds |-> 0]
    /\ isReconnecting' = TRUE
    /\ cbRuns' = cbRuns + 1
    /\ lostPc' = lostPc \cup {t}
    /\ UNCHANGED reconnectGraceTimer
    /\ ev' = [Ev("graceExpire", 0, t, "invoked", NoValue) EXCEPT !.qs = Registered]
    /\ UNCHANGED <<closeCount, connections, timerCount, reopened>>

\* the grace-timer callback of _removeConnection, up to its await (or to
\* its end when the callback is not invoked): timer t expires
GraceExpire(t) ==
    /\ Event
    /\ t \in graceTimers
    /\ graceTimers' = graceTimers \ {t}
    /\ fired' = fired \cup {t}
    /\ SetHeap(CloseAll(Heap, Registered))
    /\ messageQueues' = [id \in RequestIds |-> 0]
    /\ IF ~isReconnecting
       THEN /\ isReconnecting' = TRUE
            /\ cbRuns' = cbRuns + 1
            /\ lostPc' = lostPc \cup {t}
            /\ UNCHANGED reconnectGraceTimer
            /\ ev' = [Ev("graceExpire", 0, t, "invoked", NoValue)
                      EXCEPT !.qs = Registered]
       ELSE /\ reconnectGraceTimer' = 0
            /\ UNCHANGED <<isReconnecting, cbRuns, lostPc>>
            /\ ev' = [Ev("graceExpire", 0, t, "skipped", NoValue)
                      EXCEPT !.qs = Registered]
    /\ UNCHANGED <<closeCount, connections, timerCount, reopened>>

\* the rest of the grace-timer callback, after onConnectionLostCallback()
\* has settled (fulfilled or rejected): finally, emit, clear the handle
ConnectionLostDone(t) ==
    /\ Event
    /\ t \in lostPc
    /\ lostPc' = lostPc \ {t}
    /\ isReconnecting' = FALSE
    /\ reconnectGraceTimer' = 0
    /\ ev' = Ev("connectionLostDone", 0, t, Null, NoValue)
    /\ UNCHANGED <<qvars, connections, messageQueues, graceTimers, timerCount,
                   cbRuns, fired, reopened>>

RouteMessageRaw(H, m, q) ==
    IF m.event_type \in {"response_headers", "chunk", "error", "stream_close"}
    THEN Enqueue(H, q, m)
    ELSE H

\* _routeMessage(message, queue)
RouteMessage(H, m, q) ==
    IF m.event_type \in {"response_headers", "chunk", "error"}
    THEN Enqueue(H, q, m)
    ELSE IF m.event_type = "stream_close"
    THEN Enqueue(H, q, StreamEnd)
    ELSE H

\* what JSON.parse makes of the data of a socket message: a frame, with or
\* without request_id, or a SyntaxError
Parsed == {Message(id, et) : id \in RequestIds, et \in EventTypes}
              \cup {Message(Null, "chunk")}
Unparsable ==
    [request_id |-> Null, event_type |-> Null, type |-> "SyntaxError", status |-> 0]

\* _handleIncomingMessage(messageData)
HandleIncomingMessage(data) ==
    /\ Event
    /\ connections # {}
    /\ IF data = Unparsable
       THEN /\ SetHeap(Heap)
            /\ ev' = Ev("message", 0, 0, "unparsable", NoValue)
       ELSE IF data.request_id = Null
       THEN /\ SetHeap(Heap)
            /\ ev' = Ev("message", 0, 0, "parsed", data)
       ELSE LET q == messageQueues[data.request_id]
            IN  /\ SetHeap(IF q # 0 THEN RouteMessage(Heap, data, q) ELSE Heap)
                /\ ev' = Ev("message", q, 0, "parsed", data)
    /\ UNCHANGED <<closeCount, rvars>>

\* createMessageQueue(requestId)
CreateMessageQueue(id) ==
    /\ Event
    /\ Len(queues) < MaxQueues
    /\ SetHeap(Construct(Heap))
    /\ messageQueues' = [messageQueues EXCEPT ![id] = Len(queues) + 1]
    /\ ev' = Ev("create", Len(queues) + 1, messageQueues[id], id, NoValue)
    /\ UNCHANGED <<closeCount, connections, reconnectGraceTimer, isReconnecting,
                   graceTimers, timerCount, lostPc, cbRuns, fired, reopened>>

\* removeMessageQueue(requestId)
RemoveMessageQueue(id) ==
    /\ Event
    /\ IF messageQueues[id] # 0
       THEN /\ SetHeap(CallClose(Heap, messageQueues[id], Undefined))
            /\ messageQueues' = [messageQueues EXCEPT ![id] = 0]
       ELSE /\ SetHeap(Heap)
            /\ UNCHANGED messageQueues
    /\ ev' = Ev("remove", messageQueues[id], 0, id, NoValue)
    /\ UNCHANGED <<closeCount, connections, reconnectGraceTimer, isReconnecting,
                   graceTimers, timerCount, lostPc, cbRuns, fired, reopened>>

\* the consumer of a queue it was handed by createMessageQueue
ConsumerDequeue(q) ==
    /\ Event
    /\ Len(resolvers) < MaxWaiters
    /\ SetHeap(Dequeue(Heap, q))
    /\ ev' = Ev("dequeue", q, Len(resolvers) + 1, Null, NoValue)
    /\ UNCHANGED <<closeCount, rvars>>

RegistryStateInit ==
    /\ queues = <<>>
    /\ resolvers = <<>>
    /\ timers = {}
    /\ delivered = <<>>
    /\ enqCount = 0
    /\ closeCount = 0
    /\ lastClose = <<>>
    /\ RegistryInit
    /\ ev = Ev("init", 0, 0, Null, NoValue)

\* the registry's table of queues, its routing of agent frames and the
\* consumers of the queues
RegistryNext ==
    \/ \E data \in Parsed \cup {Unparsable} :
          enqCount < MaxFrames /\ HandleIncomingMessage(data)
    \/ \E id \in RequestIds : CreateMessageQueue(id)
    \/ \E id \in RequestIds : RemoveMessageQueue(id)
    \/ \E q \in 1..Len(queues) : ConsumerDequeue(q)
    \/ QTimeout

\* the registry once the agent's socket "s1" has opened (addConnection with
\* no grace timer running only adds the socket)
ConnectedInit ==
    /\ queues = <<>>
    /\ resolvers = <<>>
    /\ timers = {}
    /\ delivered = <<>>
    /\ enqCount = 0
    /\ closeCount = 0
    /\ lastClose = <<>>
    /\ PipelineInit
    /\ connections = {"s1"}
    /\ messageQueues = [id \in RequestIds |-> 0]
    /\ reconnectGraceTimer = 0
    /\ isReconnecting = FALSE
    /\ graceTimers = {}
    /\ timerCount = 0
    /\ lostPc = {}
    /\ cbRuns = 0
    /\ fired = {}
    /\ reopened = {}
    /\ ev = Ev("addConnection", 0, 0, "none", NoValue)

SpecRegistry == ConnectedInit /\ [][RegistryNext]_vars

\* the registry's sockets and its reconnect grace window, with the queues
\* it holds and their consumers
GraceNext ==
    \/ \E s \in Sockets : AddConnection(s)
    \/ \E s \in Sockets : timerCount < MaxTimers /\ RemoveConnection(s)
    \/ \E t \in 1..MaxTimers : GraceExpire(t)
    \/ \E t \in 1..MaxTimers : ConnectionLostDone(t)
    \/ \E id \in RequestIds : CreateMessageQueue(id)
    \/ \E q \in 1..Len(queues) : ConsumerDequeue(q)
    \/ QTimeout

SpecGrace == RegistryStateInit /\ [][GraceNext]_vars

(* ------------------------- claims on the queue ------------------------ *)
Parked(q) == {queues[q].waitingResolvers[i] :
                 i \in 1..Len(queues[q].waitingResolvers)}
Buffered(q) == {queues[q].messages[i].seq : i \in 1..Len(queues[q].messages)}
DeliveredSet == {delivered[i] : i \in 1..Len(delivered)}
Got(r) == resolvers[r].outcome.kind = "frame"
WasParked(r) == resolvers[r].timeoutId # 0 \/ resolvers[r].outcome.kind = "timeout"

\* C1: for every interleaving of enqueue, dequeue (parking or not) and
\* dequeue timeouts, an enqueued frame is returned by at most one dequeue
\* and frames are returned in the order of their enqueue: the frames
\* delivered so far are in increasing enqueue order, two dequeue calls never
\* return the same frame, and an earlier call returns an earlier frame.
C1_FifoAtMostOnce ==
    /\ \A i, j \in 1..Len(delivered) : i < j => delivered[i] < delivered[j]
    /\ \A r1, r2 \in 1..Len(resolvers) :
          (r1 < r2 /\ Got(r1) /\ Got(r2)) =>
              resolvers[r1].outcome.frame.seq < resolvers[r2].outcome.frame.seq
    /\ \A r \in 1..Len(resolvers) :
          Got(r) => resolvers[r].outcome.frame.seq \in 1..enqCount

\* C1 witness: three frames were enqueued, a parked dequeue timed out, a
\* parked dequeue was resolved by an enqueue and another dequeue found its
\* frame buffered.
C1_Witness ==
    /\ enqCount >= 2 /\ Len(delivered) >= 2
    /\ \E r \in 1..Len(resolvers) : resolvers[r].outcome.kind = "timeout"
    /\ \E r \in 1..Len(resolvers) : Got(r) /\ resolvers[r].timeoutId # 0
    /\ \E r \in 1..Len(resolvers) : Got(r) /\ resolvers[r].timeoutId = 0

C3_OneOutcome ==
    /\ \A r \in 1..Len(resolvers) :
          ~(resolvers[r].resolveCalled /\ resolvers[r].rejectCalled)
    /\ \A r \in timers :
          resolvers[r].outcome.kind = "pending" /\ r \in Parked(resolvers[r].queue)
    /\ \A q \in 1..Len(queues) : \A r \in Parked(q) :
          resolvers[r].outcome.kind = "pending" /\ r \in timers
    /\ (Len(queues) = 1 /\ lastClose[1] = Null) =>
          /\ DeliveredSet \cup Buffered(1) = 1..enqCount
          /\ DeliveredSet \cap Buffered(1) = {}

\* C3 witness: both orders have happened on the open queue: a waiter timed
\* out and the frame enqueued afterwards is buffered, and another parked
\* waiter was resolved by an enqueue.
C3_Witness ==
    /\ lastClose[1] = Null
    /\ \E r \in 1..Len(resolvers) :
          /\ resolvers[r].outcome.kind = "timeout"
          /\ Buffered(1) # {}
          /\ ev.op = "enqueue"
    /\ \E r \in 1..Len(resolvers) : Got(r) /\ resolvers[r].timeoutId # 0

\* C4: once close has been called on a queue, the waiters parked at that
\* moment are released with QueueClosed, the buffer is empty, and nothing is
\* delivered or buffered afterwards: a closed queue has no buffered frame
\* and no parked waiter, a close step rejects every parked waiter, and a
\* step taken on a closed queue delivers no frame from it.
C4_ClosedIsDead ==
    [][ /\ \A q \in 1..Len(queues') : lastClose'[q] # Null =>
              /\ queues'[q].messages = <<>>
              /\ queues'[q].waitingResolvers = <<>>
        /\ ev'.op = "close" =>
              \A r \in Parked(ev'.q) : resolvers'[r].outcome.kind = "closed"
        /\ \A r \in 1..Len(resolvers') :
              (lastClose[resolvers'[r].queue] # Null /\ r <= Len(resolvers)) =>
                  resolvers'[r].outcome = resolvers[r].outcome
        /\ \A r \in 1..Len(resolvers') :
              (lastClose[resolvers'[r].queue] # Null /\ r > Len(resolvers)) =>
                  resolvers'[r].outcome.kind = "closed"
      ]_vars

\* C4 witness: a close released a parked waiter and an enqueue was called
\* on the closed queue afterwards.
C4_Witness ==
    /\ ev.op = "enqueue" /\ lastClose[ev.q] # Null
    /\ \E r \in 1..Len(resolvers) :
          resolvers[r].timeoutId # 0 /\ resolvers[r].outcome.kind = "closed"

(* ------------------------ claims on the registry ---------------------- *)
OnQueue(q) == {r \in 1..Len(resolvers) : resolvers[r].queue = q}

\* C5: if a socket closes and a socket reopens within the 60 s, no queue
\* registered at that time is closed or removed (its parked dequeues stay
\* parked) and onConnectionLost is not invoked: after an addConnection that
\* found the grace timer pending, every queue that was registered is still
\* registered and open; and the callback is never invoked at the expiry of
\* a timer during whose 60 s a socket opened.
C5_ReopenKeepsQueues ==
    /\ (ev.op = "addConnection" /\ ev.arg = "grace") =>
          \A q \in ev.qs :
              /\ q \in Registered
              /\ ~queues[q].closed
              /\ \A r \in OnQueue(q) : resolvers[r].outcome.kind # "closed"
    /\ (ev.op = "graceExpire" /\ ev.arg = "invoked") => ev.r \notin reopened

\* C6: if no socket returns within the 60 s, every queue the registry holds
\* is closed with reason connection_lost, each parked waiter fails with
\* QueueClosed reason connection_lost, and the table is emptied: the state
\* right after the expiry of a grace timer during whose 60 s no socket
\* opened.
C6_LostClosesWithReason ==
    (ev.op = "graceExpire" /\ ev.r \notin reopened) =>
        /\ Registered = {}
        /\ \A q \in ev.qs :
              /\ queues[q].closed
              /\ queues[q].closeReason = "connection_lost"
              /\ \A r \in OnQueue(q) :
                    resolvers[r].timeoutId # 0 =>
                        resolvers[r].outcome \in {Closed("connection_lost"), TimedOut}

\* C7 as stated: onConnectionLost runs exactly once per lost session (an
\* expiry of a grace timer during whose 60 s no socket opened), and never
\* while an earlier invocation is still in progress.
C7_ExactlyOncePerLostSession ==
    /\ cbRuns = Cardinality(fired \ reopened)
    /\ Cardinality(lostPc) <= 1

\* C7 amended: onConnectionLost is invoked only by the expiry of a grace
\* timer, at most once per expiry: exactly once if no earlier invocation is
\* still in progress at that moment and not at all otherwise; so an
\* invocation never starts while an earlier one is in progress.
C7_AtMostOncePerExpiry ==
    [][ /\ fired' # fired =>
              cbRuns' = cbRuns + (IF lostPc = {} THEN 1 ELSE 0)
        /\ fired' = fired => cbRuns' = cbRuns
        /\ Cardinality(lostPc') <= 1
      ]_vars

\* C7 witness: a second grace timer expired while the invocation started by
\* the first was still in progress, and the callback was not invoked again.
C7_Witness ==
    /\ Cardinality(fired) = 2 /\ cbRuns = 1
    /\ ev.op = "graceExpire" /\ ev.arg = "skipped" /\ lostPc # {}

\* C8: the registry holds at most one queue per request-id, and
\* createMessageQueue with an id that already has a queue closes the prior
\* queue with reason replaced_on_retry, so that a dequeue parked on the
\* prior queue fails with QueueClosed reason replaced_on_retry: the state
\* right after such a call.
C8_ReplaceClosesPrior ==
    (ev.op = "create" /\ ev.r # 0) =>
        /\ Cardinality({id \in RequestIds : messageQueues[id] = ev.r}) = 0
        /\ messageQueues[ev.arg] = ev.q
        /\ queues[ev.r].closed
        /\ queues[ev.r].closeReason = "replaced_on_retry"
        /\ \A r \in OnQueue(ev.r) :
              resolvers[r].timeoutId # 0 =>
                  resolvers[r].outcome \in {Closed("replaced_on_retry"), TimedOut}

KnownTypes == {"response_headers", "chunk", "error", "stream_close"}

\* what the frame of a routed message must be: the message itself, or the
\* STREAM_END sentinel for stream_close
Routed(m) == IF m.event_type = "stream_close" THEN StreamEnd ELSE m

\* C9: an inbound agent frame affects only the queue registered under its
\* request_id. A step that handles a frame leaves every other queue and
\* every dequeue on another queue as they were; response_headers, chunk and
\* error reach the registered queue unchanged and stream_close as
\* STREAM_END (buffered, or handed to the first parked waiter); a frame
\* that cannot be parsed, has no request_id, has no registered queue or has
\* an unknown event_type changes no queue and no dequeue.
C9_RoutesToRegisteredOnly ==
    [][ ev'.op = "message" =>
          LET m == ev'.msg
              q == IF ev'.arg = "parsed" /\ m.request_id \in RequestIds
                   THEN messageQueues[m.request_id] ELSE 0
          IN  /\ ev'.q = q
              /\ \A q2 \in 1..Len(queues) : q2 # q => queues'[q2] = queues[q2]
              /\ \A r \in 1..Len(resolvers) :
                    resolvers[r].queue # q => resolvers'[r] = resolvers[r]
              /\ Len(resolvers') = Len(resolvers) /\ Len(queues') = Len(queues)
              /\ (q = 0 \/ m.event_type \notin KnownTypes) =>
                    /\ queues' = queues /\ resolvers' = resolvers
                    /\ timers' = timers /\ delivered' = delivered
              /\ (q # 0 /\ m.event_type \in KnownTypes) =>
                    IF Parked(q) = {}
                    THEN /\ queues'[q].messages =
                              Append(queues[q].messages, Frame(enqCount + 1, Routed(m)))
                         /\ resolvers' = resolvers
                    ELSE LET w == Head(queues[q].waitingResolvers)
                         IN  /\ resolvers'[w].outcome =
                                    Resolved(Frame(enqCount + 1, Routed(m)))
                             /\ queues'[q].messages = queues[q].messages
                             /\ \A r \in OnQueue(q) \ {w} :
                                    resolvers'[r] = resolvers[r]
      ]_vars

\* C9 witness: a stream_close frame for a registered id was handed to the
\* parked consumer of that id's queue as STREAM_END while another queue is
\* registered under the other id.
C9_Witness ==
    /\ ev.op = "message" /\ ev.msg.event_type = "stream_close" /\ ev.q # 0
    /\ \E r \in OnQueue(ev.q) : resolvers[r].outcome.kind = "frame"
                                 /\ resolvers[r].outcome.frame.val = StreamEnd
    /\ Cardinality(Registered) = 2

(***************************************************************************)
(* The request pipeline (RequestHandler.js): one handler per request.  A   *)
(* handler is an async function: it runs synchronously up to an await, and *)
(* its continuation runs as a microtask once the awaited promise settles,  *)
(* before any further timer, socket or HTTP event is dispatched.  running  *)
(* names the handler that is inside a synchronous stretch.                 *)
(***************************************************************************)

\* this.maxRetries, config.maxRetries (default 3, at least 1)
maxRetries == 2

MaxReplies == 2     \* agent frames that reach a queue of the pipeline
MaxLosses == 1      \* times the agent socket closes while the pipeline runs
Agent == "s1"       \* the socket of the current identity
Clients == {"r1"}   \* the requests that arrive

\* the frames the agent sends while the pipeline runs, all about a request
\* it was sent
Replies == {Message(id, et) : id \in Clients, et \in EventTypes}

regRest == <<closeCount, connections, reconnectGraceTimer, isReconnecting,
             graceTimers, timerCount, lostPc, cbRuns, fired, reopened>>

\* connectionRegistry.getConnectionByAuth(currentAuthIndex): the results the
\* lookup can have.  A socket of the current identity is an open socket.
GetConnectionByAuth == IF connections = {} THEN {FALSE} ELSE {TRUE, FALSE}

\* connectionRegistry.removeMessageQueue(requestId, reason) as a function of
\* the heap and the table
RemoveQueue(H, mq, id) ==
    IF mq[id] # 0
    THEN [heap |-> CallClose(H, mq[id], Undefined),
          table |-> [mq EXCEPT ![id] = 0]]
    ELSE [heap |-> H, table |-> mq]

\* what a step of handler r writes
Step(H, mq, rq, run, op, r) ==
    /\ SetHeap(H)
    /\ messageQueues' = mq
    /\ req' = rq
    /\ running' = run
    /\ ev' = Ev(op, 0, 0, r, NoValue)
    /\ UNCHANGED <<regRest, svars>>

\* processRequest / processOpenAIRequest up to the try block: the readiness
\* gate and the translation either answer the request themselves (503, 400)
\* or let it pass; then createMessageQueue and _setupClientDisconnectHandler.
\* mode is the response path: "real" forwards once, "retries" goes through
\* _executeRequestWithRetries (pseudo-stream and non-stream).
StartRequest(r) ==
    /\ Quiet
    /\ req[r].pc = "new"
    /\ \E gate \in {"rejected", "real", "retries"} :
          IF gate = "rejected"
          THEN Step(Heap, messageQueues,
                    [req EXCEPT ![r].pc = "returned", ![r].ended = TRUE],
                    Null, "start", r)
          ELSE Step(Construct(Heap),
                    [messageQueues EXCEPT ![r] = Len(queues) + 1],
                    [req EXCEPT ![r].pc = "forward", ![r].mode = gate,
                                ![r].queue = Len(queues) + 1,
                                ![r].attempt = 1, ![r].hooked = TRUE],
                    r, "start", r)

\* the try block of the handler is left, by a return or by an exception that
\* its catch block logs or answers with _handleRequestError: the finally
\* block is next
Leave(r, how) ==
    Step(Heap, messageQueues, [req EXCEPT ![r].pc = "finally"], r, how, r)

\* _executeRequestWithRetries returned { success: false }: the caller sends
\* the error before (sent) or after awaiting
\* authSwitcher.handleRequestFailureAndSwitch, which it skips (~switch) for
\* a user abort or a connection reset
Failed(r, how) ==
    \E switch \in BOOLEAN, sent \in BOOLEAN :
        Step(Heap, messageQueues,
             [req EXCEPT ![r].pc = IF switch THEN "switching" ELSE "finally",
                         ![r].ended = @ \/ sent \/ ~switch],
             IF switch THEN Null ELSE r, how, r)

\* the catch block of _executeRequestWithRetries for an error that is not a
\* closed queue: immediate says its status is one of
\* config.immediateSwitchStatusCodes.  A retry cancels the request at the
\* agent, closes currentQueue, creates the next queue under the same id and
\* awaits the retry delay.
AttemptFailed(r) ==
    \E immediate \in BOOLEAN :
        IF immediate \/ req[r].attempt >= maxRetries
        THEN Failed(r, "upstream_error")
        ELSE Step(Construct(CallClose(Heap, req[r].queue,
                                      "retry_creating_new_queue")),
                  [messageQueues EXCEPT ![r] = Len(queues) + 1],
                  [req EXCEPT ![r].pc = "sleep", ![r].queue = Len(queues) + 1,
                              ![r].awaiting = 0],
                  Null, "retry", r)

\* _forwardRequest(proxyRequest), then await queue.dequeue(): the start of
\* an attempt.  _forwardRequest throws when the identity has no socket.
Forward(r) ==
    /\ running = r
    /\ req[r].pc = "forward"
    /\ \E connection \in GetConnectionByAuth :
          IF connection
          THEN Step(Dequeue(Heap, req[r].queue), messageQueues,
                    [req EXCEPT ![r].pc = "first",
                                ![r].awaiting = Len(resolvers) + 1],
                    Null, "forward", r)
          ELSE IF req[r].mode = "real"
          THEN Leave(r, "exception")
          ELSE AttemptFailed(r)

\* the continuation after the first dequeue of an attempt
FirstFrame(r) ==
    /\ running = Null
    /\ req[r].pc = "first"
    /\ Settled(r)
    /\ LET o == resolvers[req[r].awaiting].outcome
       IN  IF o.kind = "frame" /\ o.frame.val.event_type # "error"
           THEN Step(Heap, messageQueues, [req EXCEPT ![r].pc = "body"],
                     r, "headers", r)
           ELSE IF o.kind = "frame"
           THEN IF req[r].mode = "real"
                THEN Failed(r, "upstream_error")
                ELSE AttemptFailed(r)
           ELSE IF o.kind = "closed"
           THEN IF req[r].mode = "real"
                THEN Leave(r, "reset")
                ELSE Step(Heap, messageQueues,
                          [req EXCEPT ![r].pc = "finally", ![r].ended = TRUE],
                          r, "reset", r)
           ELSE IF req[r].mode = "real"
                THEN Leave(r, "exception")
                ELSE AttemptFailed(r)

\* the retry delay of handler r has elapsed: the next attempt
WakeRetry(r) ==
    /\ Quiet
    /\ req[r].pc = "sleep"
    /\ Step(Heap, messageQueues,
            [req EXCEPT ![r].pc = "forward", ![r].attempt = @ + 1],
            r, "wake", r)

\* authSwitcher.handleRequestFailureAndSwitch has settled, either way
SwitchDone(r) ==
    /\ Quiet
    /\ req[r].pc = "switching"
    /\ Step(Heap, messageQueues, [req EXCEPT ![r].pc = "finally"],
            r, "switched", r)

\* the response loop: await queue.dequeue(timeout)
BodyDequeue(r) ==
    /\ running = r
    /\ req[r].pc = "body"
    /\ Step(Dequeue(Heap, req[r].queue), messageQueues,
            [req EXCEPT ![r].pc = "next", ![r].awaiting = Len(resolvers) + 1],
            Null, "dequeue", r)

\* the continuation of the response loop: STREAM_END and an error frame
\* leave the loop, any other frame is written and the loop goes on, a
\* rejection leaves through a catch block
NextFrame(r) ==
    /\ running = Null
    /\ req[r].pc = "next"
    /\ Settled(r)
    /\ LET o == resolvers[req[r].awaiting].outcome
       IN  IF o.kind = "frame" /\ o.frame.val.type = "STREAM_END"
           THEN Leave(r, "success")
           ELSE IF o.kind = "frame" /\ o.frame.val.event_type = "error"
           THEN Leave(r, "upstream_error")
           ELSE IF o.kind = "frame"
           THEN Step(Heap, messageQueues, [req EXCEPT ![r].pc = "body"],
                     r, "chunk", r)
           ELSE IF o.kind = "closed"
           THEN Leave(r, "reset")
           ELSE Leave(r, "exception")

FinishKeepsQueue(r) ==
    /\ running = r
    /\ req[r].pc = "finally"
    /\ Step(Heap, messageQueues,
            [req EXCEPT ![r].pc = "returned", ![r].ended = TRUE],
            Null, "finish", r)

\* the finally block of the handler: removeMessageQueue(requestId), the
\* background switch, res.end(); the handler's promise resolves
Finish(r) ==
    /\ running = r
    /\ req[r].pc = "finally"
    /\ LET rm == RemoveQueue(Heap, messageQueues, r)
       IN  Step(rm.heap, rm.table,
                [req EXCEPT ![r].pc = "returned", ![r].ended = TRUE],
                Null, "finish", r)

\* the "close" event of the response of request r: the handler registered
\* by _setupClientDisconnectHandler
ClientDisconnect(r) ==
    /\ Quiet
    /\ req[r].hooked
    /\ ~req[r].gone
    /\ LET rm == IF req[r].ended
                 THEN [heap |-> Heap, table |-> messageQueues]
                 ELSE RemoveQueue(Heap, messageQueues, r)
       IN  Step(rm.heap, rm.table, [req EXCEPT ![r].gone = TRUE],
                Null, "disconnect", r)

\* one turn of the event loop: a step of a handler, or, when no handler has
\* work queued, a socket, timer or HTTP event
PipelineNext ==
    \/ \E r \in Clients : StartRequest(r)
    \/ \E r \in RequestIds : Forward(r)
    \/ \E r \in RequestIds : FirstFrame(r)
    \/ \E r \in RequestIds : WakeRetry(r)
    \/ \E r \in RequestIds : SwitchDone(r)
    \/ \E r \in RequestIds : BodyDequeue(r)
    \/ \E r \in RequestIds : NextFrame(r)
    \/ \E r \in RequestIds : Finish(r)
    \/ \E r \in RequestIds : ClientDisconnect(r)
    \/ AddConnection(Agent)
    \/ timerCount < MaxLosses /\ RemoveConnection(Agent)
    \/ \E t \in 1..MaxLosses : GraceExpire(t)
    \/ \E t \in 1..MaxLosses : ConnectionLostDone(t)
    \/ \E data \in Replies : enqCount < MaxReplies /\ HandleIncomingMessage(data)
    \/ QTimeout

SpecPipeline == RegistryStateInit /\ [][PipelineNext]_vars

\* C10: once the handler of a request has returned, on whichever path, and
\* before it has started, the registry holds no queue under the request's id
C10_NoQueueOutsideFlight ==
    \A r \in RequestIds :
        req[r].pc \in {"new", "returned"} => messageQueues[r] = 0

\* a handler has returned after a retry: its first queue was closed for the
\* retry, its second queue was registered under the same id and served the
\* response
C10_Witness ==
    \E r \in RequestIds :
        /\ req[r].pc = "returned"
        /\ req[r].attempt = 2
        /\ \E w \in OnQueue(req[r].queue) :
              /\ Got(w)
              /\ resolvers[w].outcome.frame.val = StreamEnd
        /\ messageQueues[r] = 0
        /\ queues[req[r].queue].closed

(***************************************************************************)
(* Dispatch: the request handler together with the identities.  Each       *)
(* identity has one agent socket; the switcher and the browser manager     *)
(* decide which identity is current.  A handler runs from one await to the *)
(* next in one step, and a promise that settles resumes its handler in the *)
(* same turn of the event loop.                                            *)
(***************************************************************************)

\* the agent socket of identity i (the agent connects with ?authIndex=i)
SocketOf(i) == IF i = 0 THEN "s1" ELSE "s2"

switchOnUses == 1       \* config.switchOnUses (default 40)
failureThreshold == 2   \* config.failureThreshold (default 3)
immediateSwitchStatusCodes == {429, 503}

\* the status of an error frame of the agent
Statuses == {429, 500}

MaxArrivals == 1    \* requests that arrive
MaxOps == 2         \* switches and recoveries that start
MaxDrops == 1       \* agent sockets that close
MaxAnswers == 1     \* error frames the agents send
MaxAgentFrames == 2 \* frames the agents send to the retry loop
MaxFailArrivals == 3  \* requests that arrive while failures are counted
MaxFailFrames == 6    \* frames the agents send while failures are counted
MaxParts == 4         \* parts of the candidate of an upstream response
MaxStreamFrames == 3   \* frames the agent sends to a streamed response
MaxInFlight == 2      \* requests that arrive while others are served
MaxInFlightFrames == 2 \* frames the agents send to requests served together

\* the switcher, the outbound frames and the registry's bindings as a value
Sw ==
    [cur |-> currentAuthIndex, usage |-> usageCount, failure |-> failureCount,
     busy |-> isSystemBusy, flag |-> needsSwitchingAfterRequest, ops |-> ops,
     n |-> opCount, out |-> outbound, bound |-> queueAuth, hist |-> hist,
     calls |-> {}, started |-> FALSE]

SetSw(S) ==
    /\ currentAuthIndex' = S.cur
    /\ usageCount' = S.usage
    /\ failureCount' = S.failure
    /\ isSystemBusy' = S.busy
    /\ needsSwitchingAfterRequest' = S.flag
    /\ ops' = S.ops
    /\ opCount' = S.n
    /\ outbound' = S.out
    /\ queueAuth' = S.bound
    /\ hist' = S.hist
    /\ manager' = manager
    /\ vnc' = vnc
    /\ agent' = agent

\* connectionRegistry.getConnectionByAuth(authIndex): whether the identity
\* has an open socket
ConnectionByAuth(C, i) == i \in Identities /\ SocketOf(i) \in C

\* connectionRegistry.getAuthIndexForRequest(requestId): the identity the
\* queue of the request is bound to, as a set that is empty for undefined
GetAuthIndexForRequest(mq, S, id) ==
    IF mq[id] = 0 THEN {} ELSE {S.bound[id]}

\* the identity after i in the rotation
NextAuth(i) == IF i < 0 THEN 0 ELSE (i + 1) % Cardinality(Identities)

\* a switch or recovery in progress: who started it and the identity it
\* activates
Op(kind, by, target) == [kind |-> kind, by |-> by, target |-> target]

\* the part of a switch up to its first await: rejected while the system is
\* busy, else the flag is set and the activation of the target starts
StartSwitch(S, kind, by, target) ==
    LET seen == [kind |-> kind, by |-> by, n |-> S.n, busy |-> S.busy,
                 setter |-> S.hist.setter]
    IN  IF S.busy
        THEN [S EXCEPT !.calls = @ \cup {seen}, !.started = FALSE]
        ELSE [S EXCEPT !.calls = @ \cup {seen}, !.started = TRUE,
                       !.busy = TRUE, !.n = @ + 1,
                       !.ops = @ \cup {Op(kind, by, target)},
                       !.hist.setter = "switcher"]

\* authSwitcher.switchToNextAuth()
SwitchToNextAuth(S, by) == StartSwitch(S, "switchToNext", by, NextAuth(S.cur))

\* authSwitcher.switchToSpecificAuth(targetIndex)
SwitchToSpecificAuth(S, by, target) ==
    StartSwitch(S, "switchToSpecific", by, target)

\* a switch settles: the target is current with fresh counters, or no
\* identity is; the flag is cleared in its finally
SwitchSettles(S, o, ok) ==
    [S EXCEPT !.cur = IF ok THEN o.target ELSE -1,
              !.usage = IF ok THEN 0 ELSE @,
              !.failure = IF ok THEN 0 ELSE @,
              !.busy = FALSE,
              !.ops = @ \ {o},
              !.hist = IF ok \/ S.cur # -1
                       THEN [@ EXCEPT !.setter = Null, !.uses = 0, !.spawns = 0,
                                      !.streak = 0]
                       ELSE [@ EXCEPT !.setter = Null]]

\* authSwitcher.incrementUsageCount()
IncrementUsageCount(S) == [S EXCEPT !.usage = @ + 1]

\* authSwitcher.shouldSwitchByUsage()
ShouldSwitchByUsage(S) == switchOnUses > 0 /\ S.usage >= switchOnUses

\* authSwitcher.handleRequestFailureAndSwitch(errorDetails) up to its first
\* await: the failure is counted, and an immediate status or a count at the
\* threshold starts a switch to the next identity
HandleRequestFailureAndSwitch(S, by, status) ==
    LET T == [S EXCEPT !.failure = @ + 1, !.hist.streak = @ + 1]
    IN  IF \/ status \in immediateSwitchStatusCodes
           \/ failureThreshold > 0 /\ T.failure >= failureThreshold
        THEN SwitchToNextAuth(T, by)
        ELSE [T EXCEPT !.started = FALSE]

\* the heap, the registry's table, the handlers and the switcher as a value
World == [H |-> Heap, mq |-> messageQueues, rq |-> req, S |-> Sw]

\* what a step of handler r writes; msg is the frame the step consumed
CommitMsg(W, run, op, r, msg) ==
    /\ SetHeap(W.H)
    /\ messageQueues' = W.mq
    /\ req' = W.rq
    /\ running' = run
    /\ SetSw(W.S)
    /\ ev' = [Ev(op, 0, 0, r, msg) EXCEPT !.calls = W.S.calls]
    /\ UNCHANGED regRest

Commit(W, run, op, r) == CommitMsg(W, run, op, r, NoValue)

\* a frame sent on the socket of identity auth while cur is current
Sent(type, id, auth, cur, attempt) ==
    [type |-> type, request_id |-> id, auth |-> auth, cur |-> cur,
     attempt |-> attempt]

\* _sendErrorResponse(res, status, message)
SendErrorResponse(W, r, status) ==
    IF W.rq[r].headersSent
    THEN W
    ELSE [W EXCEPT !.rq[r].status = IF status = 0 THEN 500 ELSE status,
                   !.rq[r].headersSent = TRUE,
                   !.rq[r].ended = TRUE]

\* _cancelBrowserRequest(requestId, authIndex)
CancelBrowserRequest(W, C, r, authIndex) ==
    IF ConnectionByAuth(C, authIndex)
    THEN [W EXCEPT !.S.out = @ \cup {Sent("cancel_request", r, authIndex,
                                          W.S.cur, W.rq[r].attempt)}]
    ELSE W

\* connectionRegistry.createMessageQueue(requestId, authIndex)
CreateQueue(W, r, authIndex) ==
    [W EXCEPT !.H = Construct(@),
              !.mq[r] = Len(W.H.queues) + 1,
              !.S.bound[r] = authIndex,
              !.rq[r].queue = Len(W.H.queues) + 1]

\* the finally block of processRequest: removeMessageQueue(requestId,
\* "request_complete"), the background switch when
\* needsSwitchingAfterRequest is set, res.end()
Finalize(W, r) ==
    LET rm == RemoveQueue(W.H, W.mq, r)
        S == IF W.S.flag
             THEN [SwitchToNextAuth(W.S, "background")
                   EXCEPT !.flag = FALSE, !.hist.spawns = @ + 1]
             ELSE W.S
    IN  [W EXCEPT !.H = rm.heap, !.mq = rm.table, !.S = S,
                  !.rq[r].pc = "returned", !.rq[r].ended = TRUE,
                  !.rq[r].awaiting = 0]

\* the failure branch of _handleNonStreamResponse, _handlePseudoStreamResponse
\* and _handleRealStreamResponse, and of the real-stream branch of
\* processOpenAIRequest ("openai"): the error is answered before (pseudo,
\* openai) or after the failure is handed to the switcher, which is skipped for a
\* connection reset; the handler awaits a switch that the failure started
Failure(W, r, status, reset) ==
    LET W1 == IF W.rq[r].mode \in {"pseudo", "openai"}
              THEN SendErrorResponse(W, r, status)
              ELSE W
        S == IF reset
             THEN [W1.S EXCEPT !.started = FALSE]
             ELSE HandleRequestFailureAndSwitch(W1.S, r, status)
        W2 == [W1 EXCEPT !.S = S]
    IN  IF S.started
        THEN [W2 EXCEPT !.rq[r].pc = "switching",
                        !.rq[r].awaiting = 0,
                        !.rq[r].error = IF W.rq[r].mode \in {"pseudo", "openai"}
                                        THEN 0 ELSE status]
        ELSE IF W.rq[r].mode \in {"pseudo", "openai"}
        THEN Finalize(W2, r)
        ELSE Finalize(SendErrorResponse(W2, r, status), r)

\* the catch block of _executeRequestWithRetries: a closed queue ends the
\* loop with status 503, a status of immediateSwitchStatusCodes and the last
\* attempt end it with the error's status; else the request is cancelled on
\* the identity of the failed attempt, the queue is closed, the next queue
\* is created for the current identity and the loop sleeps
AttemptErrorRetriesImmediate(W, C, r, status, reset) ==
    IF reset
    THEN Failure(W, r, 503, TRUE)
    ELSE IF W.rq[r].attempt >= maxRetries
    THEN Failure(W, r, status, FALSE)
    ELSE LET W1 == CancelBrowserRequest(W, C, r, W.rq[r].auth)
             W2 == [W1 EXCEPT !.H = CallClose(@, W.rq[r].queue,
                                              "retry_creating_new_queue")]
             W3 == CreateQueue(W2, r, W.S.cur)
         IN  [W3 EXCEPT !.rq[r].auth = W.S.cur,
                        !.rq[r].pc = "sleep",
                        !.rq[r].awaiting = 0]

AttemptError(W, C, r, status, reset) ==
    IF reset
    THEN Failure(W, r, 503, TRUE)
    ELSE IF status \in immediateSwitchStatusCodes
    THEN Failure(W, r, status, FALSE)
    ELSE IF W.rq[r].attempt >= maxRetries
    THEN Failure(W, r, status, FALSE)
    ELSE LET W1 == CancelBrowserRequest(W, C, r, W.rq[r].auth)
             W2 == [W1 EXCEPT !.H = CallClose(@, W.rq[r].queue,
                                              "retry_creating_new_queue")]
             W3 == CreateQueue(W2, r, W.S.cur)
         IN  [W3 EXCEPT !.rq[r].auth = W.S.cur,
                        !.rq[r].pc = "sleep",
                        !.rq[r].awaiting = 0]

ForwardRequestFirstConnection(W, C, r) ==
    IF C # {}
    THEN [sent |-> TRUE,
          W |-> [W EXCEPT !.S.out = @ \cup
                    {Sent("proxy_request", r,
                          IF ConnectionByAuth(C, W.S.cur) THEN W.S.cur
                          ELSE CHOOSE i \in Identities : SocketOf(i) \in C,
                          W.S.cur, W.rq[r].attempt)}]]
    ELSE [sent |-> FALSE, W |-> W]

\* _forwardRequest(proxyRequest): the frame goes to the socket of the
\* current identity; without one the call throws
ForwardRequest(W, C, r) ==
    IF ConnectionByAuth(C, W.S.cur)
    THEN [sent |-> TRUE,
          W |-> [W EXCEPT !.S.out = @ \cup
                    {Sent("proxy_request", r, W.S.cur, W.S.cur,
                          W.rq[r].attempt)}]]
    ELSE [sent |-> FALSE, W |-> W]

\* one attempt up to its await: _forwardRequest, then dequeue().  When the
\* forward throws, the retry loop catches it as a failed attempt, while the
\* real-stream path leaves through the catch block of processRequest, which
\* answers 500 (_handleRequestError)
Dispatch(W, C, r) ==
    LET f == ForwardRequest(W, C, r)
    IN  IF f.sent
        THEN [f.W EXCEPT !.H = Dequeue(@, W.rq[r].queue),
                         !.rq[r].pc = "first",
                         !.rq[r].awaiting = Len(W.H.resolvers) + 1]
        ELSE IF W.rq[r].mode = "real"
        THEN Finalize(SendErrorResponse(W, r, 500), r)
        ELSE AttemptError(W, C, r, 500, FALSE)

\* processRequest from the usage counting to the first await: the count and
\* the flag for generative requests, createMessageQueue,
\* _setupClientDisconnectHandler, the first attempt
AcceptCountsEveryRequest(W, C, r) ==
    LET U == [IncrementUsageCount(W.S) EXCEPT
                 !.hist.uses = IF W.rq[r].generative THEN @ + 1 ELSE @]
        S == IF U.usage > 0 /\ ShouldSwitchByUsage(U)
             THEN [U EXCEPT !.flag = TRUE]
             ELSE U
        W1 == CreateQueue([W EXCEPT !.S = S], r, S.cur)
    IN  Dispatch([W1 EXCEPT !.rq[r].hooked = TRUE,
                            !.rq[r].attempt = 1,
                            !.rq[r].auth = S.cur,
                            !.rq[r].marked = S.flag /\ S.usage # W.S.usage],
                 C, r)

Accept(W, C, r) ==
    LET U == [IncrementUsageCount(W.S) EXCEPT !.hist.uses = @ + 1]
        S == IF ~W.rq[r].generative
             THEN W.S
             ELSE IF U.usage > 0 /\ ShouldSwitchByUsage(U)
             THEN [U EXCEPT !.flag = TRUE]
             ELSE U
        W1 == CreateQueue([W EXCEPT !.S = S], r, S.cur)
    IN  Dispatch([W1 EXCEPT !.rq[r].hooked = TRUE,
                            !.rq[r].attempt = 1,
                            !.rq[r].auth = S.cur,
                            !.rq[r].marked = S.flag /\ S.usage # W.S.usage],
                 C, r)

\* a return of the handler before its try block, after _sendErrorResponse
Reject(W, r, status) ==
    [SendErrorResponse(W, r, status) EXCEPT !.rq[r].pc = "returned",
                                            !.rq[r].awaiting = 0]

\* processRequest after the recovery: while the system is busy the handler
\* waits for it to be ready
Gate(W, C, r) ==
    IF W.S.busy
    THEN [W EXCEPT !.rq[r].pc = "readyWait"]
    ELSE Accept(W, C, r)

\* _handleBrowserRecovery from the direct recovery on: with a current
\* identity the handler sets isSystemBusy itself and restarts the
\* identity's context, without one it asks the switcher for the next
DirectRecovery(W, C, r) ==
    IF W.S.cur >= 0
    THEN [W EXCEPT !.rq[r].direct = TRUE,
                   !.rq[r].pc = "direct",
                   !.S.busy = TRUE,
                   !.S.n = @ + 1,
                   !.S.ops = @ \cup {Op("direct", r, W.S.cur)},
                   !.S.hist.setter = "pipeline"]
    ELSE IF Identities # {}
    THEN LET S == SwitchToNextAuth(W.S, r)
         IN  IF S.started
             THEN [W EXCEPT !.S = S, !.rq[r].pc = "switchR"]
             ELSE Reject([W EXCEPT !.S = S], r, 503)
    ELSE Reject(W, r, 503)

RecoverIgnoresBusy(W, C, r) == DirectRecovery(W, C, r)

\* _handleBrowserRecovery after the grace wait: a busy system is waited
\* for, else the recovery starts
Recover(W, C, r) ==
    IF W.S.busy
    THEN [W EXCEPT !.rq[r].pc = "readyWaitR"]
    ELSE DirectRecovery(W, C, r)

\* a request arrives: processRequest up to its first await.  Without a
\* socket of the current identity the recovery runs, which first waits
\* while the registry is in its grace period or reconnecting.
Arrive(r, mode, generative) ==
    /\ Quiet
    /\ req[r].pc = "new"
    /\    LET W == [World EXCEPT !.rq[r].mode = mode,
                                 !.rq[r].generative = generative,
                                 !.S.hist.arrivals = @ + 1]
          IN  IF ConnectionByAuth(connections, currentAuthIndex)
              THEN Commit(Gate(W, connections, r), Null, "arrive", r)
              ELSE IF reconnectGraceTimer # 0 \/ isReconnecting
              THEN Commit([W EXCEPT !.rq[r].pc = "graceWait"], Null,
                          "arrive", r)
              ELSE Commit(Recover(W, connections, r), Null, "arrive", r)

\* _waitForGraceReconnect has settled: with true when the grace period is
\* over and the socket of the current identity is open, with false when it
\* or its wait for the connection timed out
GraceWaited(r) ==
    /\ Quiet
    /\ req[r].pc = "graceWait"
    /\ \E reconnected \in BOOLEAN :
          IF reconnected
          THEN /\ reconnectGraceTimer = 0
               /\ ~isReconnecting
               /\ ConnectionByAuth(connections, currentAuthIndex)
               /\ Commit(Gate(World, connections, r), Null, "graceWaited", r)
          ELSE Commit(Recover(World, connections, r), Null, "graceWaited", r)

\* _waitForSystemReady has settled: true when the system is no longer busy,
\* false after 120 s.  Then the socket of the current identity is waited
\* for when it is missing.
ReadyWaited(r) ==
    /\ Quiet
    /\ req[r].pc \in {"readyWait", "readyWaitR"}
    /\ \E ready \in BOOLEAN :
          IF ~ready
          THEN Commit(Reject(World, r, 503), Null, "readyExpired", r)
          ELSE /\ ~isSystemBusy
               /\ IF ~ConnectionByAuth(connections, currentAuthIndex)
                  THEN Commit([World EXCEPT !.rq[r].pc =
                                  IF req[r].pc = "readyWait"
                                  THEN "connWait" ELSE "connWaitR"],
                              Null, "readyWaited", r)
                  ELSE Commit(Gate(World, connections, r), Null,
                              "readyWaited", r)

\* _waitForConnection has settled: true when the socket of the current
\* identity is open, false after 10 s.  The recovery returns to the gate of
\* processRequest, the gate itself goes on.
ConnWaitedGoesOn(r) ==
    /\ Quiet
    /\ req[r].pc \in {"connWait", "connWaitR"}
    /\ \E connectionReady \in BOOLEAN :
          IF ~connectionReady
          THEN Commit(Accept(World, connections, r), Null, "connExpired", r)
          ELSE /\ ConnectionByAuth(connections, currentAuthIndex)
               /\ IF req[r].pc = "connWait"
                  THEN Commit(Accept(World, connections, r), Null,
                              "connWaited", r)
                  ELSE Commit(Gate(World, connections, r), Null,
                              "connWaited", r)

ConnWaited(r) ==
    /\ Quiet
    /\ req[r].pc \in {"connWait", "connWaitR"}
    /\ \E connectionReady \in BOOLEAN :
          IF ~connectionReady
          THEN Commit(Reject(World, r, 503), Null, "connExpired", r)
          ELSE /\ ConnectionByAuth(connections, currentAuthIndex)
               /\ IF req[r].pc = "connWait"
                  THEN Commit(Accept(World, connections, r), Null,
                              "connWaited", r)
                  ELSE Commit(Gate(World, connections, r), Null,
                              "connWaited", r)

RecoveryCatchKeepsBusy(W, C, r) ==
    IF W.rq[r].direct /\ Cardinality(Identities) > 1
    THEN LET S == SwitchToNextAuth(W.S, r)
         IN  IF S.started
             THEN [W EXCEPT !.S = S, !.rq[r].pc = "switchR"]
             ELSE [Reject([W EXCEPT !.S = S], r, 503)
                   EXCEPT !.S.busy = FALSE, !.S.hist.setter = Null]
    ELSE [Reject(W, r, 503) EXCEPT !.S.busy = FALSE, !.S.hist.setter = Null]

\* the catch and finally blocks of _handleBrowserRecovery after a failed
\* direct recovery: with a second identity the handler clears isSystemBusy
\* and wasDirectRecovery and asks the switcher for the next identity, else
\* it answers 503 and clears the flag in the finally block
RecoveryCatch(W, C, r) ==
    IF W.rq[r].direct /\ Cardinality(Identities) > 1
    THEN LET W1 == [W EXCEPT !.S.busy = FALSE, !.S.hist.setter = Null,
                             !.rq[r].direct = FALSE]
             S == SwitchToNextAuth(W1.S, r)
         IN  IF S.started
             THEN [W1 EXCEPT !.S = S, !.rq[r].pc = "switchR"]
             ELSE Reject([W1 EXCEPT !.S = S], r, 503)
    ELSE [Reject(W, r, 503) EXCEPT !.S.busy = FALSE, !.S.hist.setter = Null]

DirectRecoveredKeepsBusy(r) ==
    /\ Quiet
    /\ req[r].pc = "direct"
    /\ \E o \in ops, ok \in BOOLEAN, launched \in BOOLEAN :
          /\ o.kind = "direct" /\ o.by = r
          /\ IF ok
             THEN /\ launched
                  /\ ConnectionByAuth(connections, o.target)
                  /\ Commit(Gate([World EXCEPT !.S.cur = o.target,
                                               !.S.ops = @ \ {o},
                                               !.rq[r].direct = FALSE],
                                 connections, r),
                            Null, "directRecovered", r)
             ELSE Commit(RecoveryCatch(
                             [World EXCEPT !.S.cur = IF launched THEN o.target
                                                     ELSE -1,
                                           !.S.ops = @ \ {o}],
                             connections, r),
                         Null, "directFailed", r)

\* the direct recovery has settled: launchOrSwitchContext and
\* _waitForConnection succeeded, or one of them failed; a failed launch
\* leaves no identity current
DirectRecovered(r) ==
    /\ Quiet
    /\ req[r].pc = "direct"
    /\ \E o \in ops, ok \in BOOLEAN, launched \in BOOLEAN :
          /\ o.kind = "direct" /\ o.by = r
          /\ IF ok
             THEN /\ launched
                  /\ ConnectionByAuth(connections, o.target)
                  /\ Commit(Gate([World EXCEPT !.S.cur = o.target,
                                               !.S.ops = @ \ {o},
                                               !.S.busy = FALSE,
                                               !.S.hist.setter = Null,
                                               !.rq[r].direct = FALSE],
                                 connections, r),
                            Null, "directRecovered", r)
             ELSE Commit(RecoveryCatch(
                             [World EXCEPT !.S.cur = IF launched THEN o.target
                                                     ELSE -1,
                                           !.S.ops = @ \ {o}],
                             connections, r),
                         Null, "directFailed", r)

\* the switch the recovery asked for has settled
RecoverySwitched(r) ==
    /\ Quiet
    /\ req[r].pc = "switchR"
    /\ \E o \in ops, ok \in BOOLEAN :
          /\ o.by = r
          /\ IF ok
             THEN /\ ConnectionByAuth(connections, o.target)
                  /\ Commit(Gate([World EXCEPT !.S = SwitchSettles(@, o, TRUE)],
                                 connections, r),
                            Null, "recoverySwitched", r)
             ELSE Commit(Reject([World EXCEPT !.S = SwitchSettles(@, o, FALSE)],
                                r, 503),
                         Null, "recoverySwitched", r)

\* the continuation after the first dequeue of an attempt.  A frame that
\* is no error is the success of the request: the failure count of a
\* generative request is reset and the response loop starts.
FirstMessage(r) ==
    /\ running = Null
    /\ req[r].pc = "first"
    /\ Settled(r)
    /\ LET o == resolvers[req[r].awaiting].outcome
           real == req[r].mode \in {"real", "openai"}
       IN  IF o.kind = "frame" /\ o.frame.val.event_type # "error"
           THEN Commit([World EXCEPT
                          !.rq[r].pc = "body",
                          !.S.failure = IF req[r].generative THEN 0 ELSE @,
                          !.S.hist.streak = 0],
                       r, "success", r)
           ELSE IF o.kind = "frame"
           THEN IF real
                THEN CommitMsg(Failure(World, r, o.frame.val.status, FALSE),
                               Null, "upstream_error", r, o.frame.val)
                ELSE CommitMsg(AttemptError(World, connections, r,
                                            o.frame.val.status, FALSE),
                               Null, "upstream_error", r, o.frame.val)
           ELSE IF o.kind = "closed"
           THEN IF real
                THEN Commit(Finalize(World, r), Null, "reset", r)
                ELSE Commit(AttemptError(World, connections, r, 503, TRUE),
                            Null, "reset", r)
           ELSE IF real
                THEN Commit(Finalize(SendErrorResponse(World, r, 504), r),
                            Null, "timeout", r)
                ELSE Commit(AttemptError(World, connections, r, 500, FALSE),
                            Null, "timeout", r)

\* the retry delay has elapsed: the next attempt
Wake(r) ==
    /\ Quiet
    /\ req[r].pc = "sleep"
    /\ Commit(Dispatch([World EXCEPT !.rq[r].attempt = @ + 1], connections, r),
              Null, "wake", r)

\* the switch that handleRequestFailureAndSwitch started has settled: the
\* handler answers the error it holds and leaves through its finally block
FailureSwitched(r) ==
    /\ Quiet
    /\ req[r].pc = "switching"
    /\ \E o \in ops, ok \in BOOLEAN :
          /\ o.by = r
          /\ ok => ConnectionByAuth(connections, o.target)
          /\ LET W == [World EXCEPT !.S = SwitchSettles(@, o, ok)]
             IN  Commit(Finalize(IF req[r].error # 0
                                 THEN SendErrorResponse(W, r, req[r].error)
                                 ELSE W, r),
                        Null, "failureSwitched", r)

\* the finally block after the response loop
Finally(r) ==
    /\ running = r
    /\ req[r].pc = "finally"
    /\ Commit(Finalize(World, r), Null, "finally", r)

\* the "close" event of the response: the handler registered by
\* _setupClientDisconnectHandler cancels the request on the identity its
\* queue is bound to and removes the queue
ResponseClosed(r) ==
    /\ Quiet
    /\ req[r].hooked
    /\ ~req[r].gone
    /\ IF req[r].ended
       THEN Commit([World EXCEPT !.rq[r].gone = TRUE], Null, "close", r)
       ELSE LET bound == GetAuthIndexForRequest(messageQueues, Sw, r)
                W == CancelBrowserRequest(
                         World, connections, r,
                         IF bound = {} THEN currentAuthIndex
                         ELSE CHOOSE i \in bound : TRUE)
                rm == RemoveQueue(W.H, W.mq, r)
            IN  Commit([W EXCEPT !.H = rm.heap, !.mq = rm.table,
                                 !.rq[r].gone = TRUE],
                       Null, "disconnect", r)

\* the keep-alive timer of _handlePseudoStreamResponse fires while the
\* attempts run: the event-stream headers and a comment line are written
KeepAlive(r) ==
    /\ Quiet
    /\ req[r].mode = "pseudo"
    /\ req[r].pc \in {"first", "sleep"}
    /\ ~req[r].ended
    /\ ~req[r].headersSent
    /\ Commit([World EXCEPT !.rq[r].headersSent = TRUE], Null, "keepAlive", r)

\* the frames an agent sends about a request
Answers(id) ==
    {Message(id, "response_headers"), Message(id, "stream_close")}
        \cup {[Message(id, "error") EXCEPT !.status = st] : st \in Statuses}

\* the agent of identity i sends a frame about a request it was sent
AgentSends(i, data) ==
    /\ SocketOf(i) \in connections
    /\ \E f \in outbound :
          /\ f.type = "proxy_request"
          /\ f.request_id = data.request_id
          /\ f.auth = i
    /\ HandleIncomingMessage(data)

\* the agent of identity i connects: while its context is being activated,
\* or again while the registry waits for it in the grace period
AgentOpens(i) ==
    /\ \/ \E o \in ops : o.target = i
       \/ i = currentAuthIndex /\ reconnectGraceTimer # 0
    /\ AddConnection(SocketOf(i))

\* the socket of the agent of identity i closes: its context is closed by
\* a switch, or the browser has crashed
AgentCloses(i) == RemoveConnection(SocketOf(i))

\* the "disconnected" event of the browser
BrowserDisconnected ==
    /\ Quiet
    /\ currentAuthIndex # -1
    /\ currentAuthIndex' = -1
    /\ hist' = [hist EXCEPT !.uses = 0, !.spawns = 0, !.streak = 0]
    /\ ev' = Ev("disconnected", 0, 0, Null, NoValue)
    /\ UNCHANGED <<qvars, rvars, pvars, usageCount, failureCount, isSystemBusy,
                   needsSwitchingAfterRequest, ops, opCount, outbound,
                   queueAuth, manager, vnc, agent>>

\* switchToSpecificAuth(targetIndex), asked for by the operator
SwitchToSpecific(target) ==
    /\ Quiet
    /\ SetSw(SwitchToSpecificAuth(Sw, "admin", target))
    /\ ev' = [Ev("switchToSpecific", 0, 0, Null, NoValue)
              EXCEPT !.calls = SwitchToSpecificAuth(Sw, "admin", target).calls]
    /\ UNCHANGED <<qvars, rvars, pvars>>

\* a switch that no handler awaits settles
OpSettles(o) ==
    /\ Quiet
    /\ o \in ops
    /\ o.by \notin RequestIds
    /\ \E ok \in BOOLEAN :
          /\ ok => ConnectionByAuth(connections, o.target)
          /\ SetSw(SwitchSettles(Sw, o, ok))
    /\ ev' = Ev("settled", 0, 0, Null, NoValue)
    /\ UNCHANGED <<qvars, rvars, pvars>>

\* the handler of request r has returned and its objects are garbage: the
\* next request arrives under a fresh id
NextRequest(r) ==
    /\ Quiet
    /\ req[r].pc = "returned"
    /\ messageQueues[r] = 0
    /\ \A id \in RequestIds \ {r} : req[id].pc \in {"new", "returned"}
    /\ req' = [req EXCEPT ![r] = NewRequest]
    /\ outbound' = {f \in outbound : f.request_id # r}
    /\ queues' = <<>>
    /\ resolvers' = <<>>
    /\ timers' = {}
    /\ delivered' = <<>>
    /\ lastClose' = <<>>
    /\ ev' = Ev("next", 0, 0, r, NoValue)
    /\ UNCHANGED <<enqCount, closeCount, rvars, running, currentAuthIndex,
                   usageCount, failureCount, isSystemBusy,
                   needsSwitchingAfterRequest, ops, opCount, queueAuth, hist,
                   manager, vnc, agent>>

\* the server once identity 0 has been activated and its agent has connected
WarmInit ==
    /\ queues = <<>>
    /\ resolvers = <<>>
    /\ timers = {}
    /\ delivered = <<>>
    /\ enqCount = 0
    /\ closeCount = 0
    /\ lastClose = <<>>
    /\ req = [r \in RequestIds |-> NewRequest]
    /\ running = Null
    /\ currentAuthIndex = 0
    /\ usageCount = 0
    /\ failureCount = 0
    /\ isSystemBusy = FALSE
    /\ needsSwitchingAfterRequest = FALSE
    /\ ops = {}
    /\ opCount = 0
    /\ outbound = {}
    /\ queueAuth = [id \in RequestIds |-> -1]
    /\ hist = NoHistory
    /\ manager = NoManager
    /\ vnc = NoVnc
    /\ agent = NoAgent
    /\ connections = {SocketOf(0)}
    /\ messageQueues = [id \in RequestIds |-> 0]
    /\ reconnectGraceTimer = 0
    /\ isReconnecting = FALSE
    /\ graceTimers = {}
    /\ timerCount = 0
    /\ lostPc = {}
    /\ cbRuns = 0
    /\ fired = {}
    /\ reopened = {}
    /\ ev = Ev("init", 0, 0, Null, NoValue)

\* the server after start-up: no identity is active yet, or identity 0 is
SwitchInit == RegistryStateInit \/ WarmInit

\* recovery and switching: requests that find the system without a socket
\* or busy, the agents, the browser and the operator
SwitchNext ==
    \/ \E r \in Clients : hist.arrivals < MaxArrivals /\ Arrive(r, "real", TRUE)
    \/ \E r \in Clients : GraceWaited(r)
    \/ \E r \in Clients : ReadyWaited(r)
    \/ \E r \in Clients : ConnWaited(r)
    \/ \E r \in Clients : DirectRecovered(r)
    \/ \E r \in Clients : RecoverySwitched(r)
    \/ \E r \in Clients : FirstMessage(r)
    \/ \E r \in Clients : FailureSwitched(r)
    \/ \E r \in Clients : NextRequest(r)
    \/ \E i \in Identities : AgentOpens(i)
    \/ \E i \in Identities : timerCount < MaxDrops /\ AgentCloses(i)
    \/ \E t \in 1..MaxDrops : GraceExpire(t)
    \/ \E t \in 1..MaxDrops : ConnectionLostDone(t)
    \/ \E i \in Identities, id \in Clients :
          enqCount < MaxAnswers
              /\ AgentSends(i, [Message(id, "error") EXCEPT !.status = 429])
    \/ QTimeout
    \/ BrowserDisconnected
    \/ \E target \in Identities : opCount < MaxOps /\ SwitchToSpecific(target)
    \/ \E o \in ops : OpSettles(o)

SpecSwitch == SwitchInit /\ [][SwitchNext]_vars

\* the retry loop from a cold start: one non-stream request at a time, the
\* agents and the operator; no socket closes
DispatchNext ==
    \/ \E r \in Clients, generative \in BOOLEAN :
          hist.arrivals < MaxArrivals /\ Arrive(r, "nonstream", generative)
    \/ \E r \in Clients : ReadyWaited(r)
    \/ \E r \in Clients : ConnWaited(r)
    \/ \E r \in Clients : RecoverySwitched(r)
    \/ \E r \in Clients : FirstMessage(r)
    \/ \E r \in Clients : Wake(r)
    \/ \E r \in Clients : FailureSwitched(r)
    \/ \E r \in Clients : BodyDequeue(r)
    \/ \E r \in Clients : NextFrame(r)
    \/ \E r \in Clients : Finally(r)
    \/ \E r \in Clients : NextRequest(r)
    \/ \E i \in Identities : AgentOpens(i)
    \/ \E i \in Identities, id \in Clients :
          \E data \in Answers(id) :
              enqCount < MaxAgentFrames /\ AgentSends(i, data)
    \/ \E target \in Identities : opCount < MaxOps /\ SwitchToSpecific(target)
    \/ \E o \in ops : OpSettles(o)

SpecDispatch == RegistryStateInit /\ [][DispatchNext]_vars

\* connection resets and client disconnects: one request at a time, which
\* arrives while the socket of the current identity is open, through the
\* non-stream and the pseudo-stream path
ResetNext ==
    \/ \E r \in Clients, mode \in {"nonstream", "pseudo"} :
          /\ hist.arrivals < MaxArrivals
          /\ ConnectionByAuth(connections, currentAuthIndex)
          /\ ~isSystemBusy
          /\ Arrive(r, mode, TRUE)
    \/ \E r \in Clients : FirstMessage(r)
    \/ \E r \in Clients : Wake(r)
    \/ \E r \in Clients : ResponseClosed(r)
    \/ \E r \in Clients : KeepAlive(r)
    \/ \E r \in Clients : NextRequest(r)
    \/ \E i \in Identities : AgentOpens(i)
    \/ \E i \in Identities : timerCount < MaxDrops /\ AgentCloses(i)
    \/ \E t \in 1..MaxDrops : GraceExpire(t)
    \/ \E t \in 1..MaxDrops : ConnectionLostDone(t)
    \/ \E i \in Identities, id \in Clients :
          enqCount < MaxAnswers
              /\ AgentSends(i, [Message(id, "error") EXCEPT !.status = 500])
    \/ \E o \in ops : OpSettles(o)

SpecReset == WarmInit /\ [][ResetNext]_vars

\* failures counted against an identity: non-generative non-stream requests,
\* one at a time, each arriving while the socket of the current identity is
\* open; the agents answer an attempt with headers, an error or the end of
\* the stream, or leave it to the idle timeout of its queue
FailureNext ==
    \/ \E r \in Clients :
          /\ hist.arrivals < MaxFailArrivals
          /\ ConnectionByAuth(connections, currentAuthIndex)
          /\ ~isSystemBusy
          /\ Arrive(r, "nonstream", FALSE)
    \/ \E r \in Clients : FirstMessage(r)
    \/ \E r \in Clients : Wake(r)
    \/ \E r \in Clients : FailureSwitched(r)
    \/ \E r \in Clients : BodyDequeue(r)
    \/ \E r \in Clients : NextFrame(r)
    \/ \E r \in Clients : Finally(r)
    \/ \E r \in Clients : NextRequest(r)
    \/ \E i \in Identities : AgentOpens(i)
    \/ \E i \in Identities, id \in Clients :
          \E data \in Answers(id) :
              enqCount < MaxFailFrames /\ AgentSends(i, data)
    \/ QTimeout

SpecFailure == WarmInit /\ [][FailureNext]_vars

\* requests served at the same time by one handler object: real-stream
\* requests that arrive while the socket of the current identity is open,
\* each answered by the agent with an error as its first frame
InFlightNext ==
    \/ \E r \in RequestIds, generative \in BOOLEAN :
          /\ hist.arrivals < MaxInFlight
          /\ ConnectionByAuth(connections, currentAuthIndex)
          /\ ~isSystemBusy
          /\ Arrive(r, "real", generative)
    \/ \E r \in RequestIds : FirstMessage(r)
    \/ \E i \in Identities : AgentOpens(i)
    \/ \E i \in Identities, id \in RequestIds :
          enqCount < MaxInFlightFrames
              /\ AgentSends(i, [Message(id, "error") EXCEPT !.status = 500])
    \/ \E o \in ops : OpSettles(o)

SpecInFlight == WarmInit /\ [][InFlightNext]_vars

\* the upstream responses the pseudo-stream path parses: candidates[0] with
\* content.parts, each part a thought or not, and with or without a
\* finishReason (Null: the field is absent)
Responses ==
    [parts : UNION {[1..n -> {[thought |-> TRUE], [thought |-> FALSE]}] :
                        n \in 0..MaxParts},
     finishReason : {Null, "STOP", "MAX_TOKENS"}]

SplitResponseKeepsReason(response) ==
    LET thinkingParts == SelectSeq(response.parts, LAMBDA p : p.thought = TRUE)
        contentParts == SelectSeq(response.parts, LAMBDA p : p.thought # TRUE)
    IN  (IF Len(thinkingParts) > 0
         THEN <<[parts |-> thinkingParts,
                 finishReason |-> response.finishReason]>>
         ELSE <<>>)
        \o (IF Len(contentParts) > 0
            THEN <<[parts |-> contentParts,
                    finishReason |-> response.finishReason]>>
            ELSE IF response.finishReason # Null
            THEN <<[parts |-> <<>>, finishReason |-> response.finishReason]>>
            ELSE <<>>)

\* the SSE data records _handlePseudoStreamResponse writes for a parsed
\* response: the thought parts without finishReason, then the other parts
\* with the candidate's finishReason, or the finishReason alone
SplitResponse(response) ==
    LET thinkingParts == SelectSeq(response.parts, LAMBDA p : p.thought = TRUE)
        contentParts == SelectSeq(response.parts, LAMBDA p : p.thought # TRUE)
    IN  (IF Len(thinkingParts) > 0
         THEN <<[parts |-> thinkingParts, finishReason |-> Null]>>
         ELSE <<>>)
        \o (IF Len(contentParts) > 0
            THEN <<[parts |-> contentParts,
                    finishReason |-> response.finishReason]>>
            ELSE IF response.finishReason # Null
            THEN <<[parts |-> <<>>, finishReason |-> response.finishReason]>>
            ELSE <<>>)

\* the pseudo-stream path after STREAM_END: the accumulated body is parsed
\* and written as SSE data records
PseudoStreamWrite(r) ==
    /\ req[r].pc = "parse"
    /\ req' = [req EXCEPT ![r].pc = "written",
                          ![r].written = SplitResponse(req[r].fullData)]
    /\ ev' = Ev("write", 0, 0, r, NoValue)
    /\ UNCHANGED <<qvars, rvars, running, svars>>

\* a pseudo-stream request whose whole body has arrived
SplitInit ==
    /\ queues = <<>>
    /\ resolvers = <<>>
    /\ timers = {}
    /\ delivered = <<>>
    /\ enqCount = 0
    /\ closeCount = 0
    /\ lastClose = <<>>
    /\ connections = {}
    /\ messageQueues = [id \in RequestIds |-> 0]
    /\ reconnectGraceTimer = 0
    /\ isReconnecting = FALSE
    /\ graceTimers = {}
    /\ timerCount = 0
    /\ lostPc = {}
    /\ cbRuns = 0
    /\ fired = {}
    /\ reopened = {}
    /\ running = Null
    /\ SwitcherInit
    /\ \E response \in Responses :
          req = [r \in RequestIds |->
                    IF r \in Clients
                    THEN [NewRequest EXCEPT !.pc = "parse", !.mode = "pseudo",
                                            !.fullData = response]
                    ELSE NewRequest]
    /\ ev = Ev("init", 0, 0, Null, NoValue)

SplitNext == \E r \in Clients : PseudoStreamWrite(r)

SpecSplit == SplitInit /\ [][SplitNext]_vars

\* res.write of an SSE record by handler r
WriteRecord(W, r, rec) == [W EXCEPT !.rq[r].written = Append(@, rec)]

\* _isResponseWritable(res)
IsResponseWritable(W, r) == ~W.rq[r].ended /\ ~W.rq[r].gone

\* the continuation of the streaming response loops after
\* dequeue(STREAM_CHUNK): _handleRealStreamResponse ("real") and
\* _streamOpenAIResponse ("openai").  STREAM_END leaves the loop, after the
\* [DONE] record of the OpenAI stream; an error frame is written as an error
\* record and leaves it; a frame with data is written and the loop goes on.
\* A closed queue is rethrown to the catch block of processRequest, which
\* only logs it, or ends the OpenAI stream silently; a queue timeout is
\* logged by the native loop and written as a 504 error record by the
\* OpenAI loop.
StreamFrame(r) ==
    /\ running = Null
    /\ req[r].pc = "next"
    /\ Settled(r)
    /\ LET o == resolvers[req[r].awaiting].outcome
           openai == req[r].mode = "openai"
           Go(W, pc) == [W EXCEPT !.rq[r].pc = pc]
       IN  IF o.kind = "frame" /\ o.frame.val.type = "STREAM_END"
           THEN Commit(Go(IF openai THEN WriteRecord(World, r, "done")
                          ELSE World, "finally"),
                       r, "stream_end", r)
           ELSE IF o.kind = "frame" /\ o.frame.val.event_type = "error"
           THEN CommitMsg(Go(IF IsResponseWritable(World, r)
                             THEN WriteRecord(World, r, "error_500")
                             ELSE World, "finally"),
                          r, "stream_error", r, o.frame.val)
           ELSE IF o.kind = "frame"
           THEN CommitMsg(Go(IF o.frame.val.event_type = "chunk"
                             THEN WriteRecord(World, r, "chunk")
                             ELSE World, "body"),
                          r, "chunk", r, o.frame.val)
           ELSE IF o.kind = "closed"
           THEN Commit(Go(World, "finally"), r, "stream_reset", r)
           ELSE Commit(Go(IF openai /\ IsResponseWritable(World, r)
                          THEN WriteRecord(World, r, "error_504")
                          ELSE World, "finally"),
                       r, "stream_timeout", r)

\* the frames an agent sends about a request it streams
StreamAnswers(id) ==
    {Message(id, "response_headers"), Message(id, "chunk"),
     Message(id, "stream_close"),
     [Message(id, "error") EXCEPT !.status = 500]}

\* a streamed response while the agent socket is lost: one request, through
\* the native real-stream path or the OpenAI one, arrives while the socket
\* of the current identity is open; the agent streams frames, its socket
\* closes and may reopen within the grace period, the chunk timeout of a
\* parked dequeue fires
StreamNext ==
    \/ \E r \in Clients, mode \in {"real", "openai"} :
          /\ hist.arrivals < MaxArrivals
          /\ ConnectionByAuth(connections, currentAuthIndex)
          /\ ~isSystemBusy
          /\ Arrive(r, mode, TRUE)
    \/ \E r \in Clients : FirstMessage(r)
    \/ \E r \in Clients : BodyDequeue(r)
    \/ \E r \in Clients : StreamFrame(r)
    \/ \E r \in Clients : Finally(r)
    \/ \E i \in Identities : AgentOpens(i)
    \/ \E i \in Identities : timerCount < MaxDrops /\ AgentCloses(i)
    \/ \E t \in 1..MaxDrops : GraceExpire(t)
    \/ \E t \in 1..MaxDrops : ConnectionLostDone(t)
    \/ \E i \in Identities, id \in Clients :
          \E data \in StreamAnswers(id) :
              enqCount < MaxStreamFrames /\ AgentSends(i, data)
    \/ QTimeout
    \/ \E o \in ops : OpSettles(o)

SpecStream == WarmInit /\ [][StreamNext]_vars

(* --------------------------- BrowserManager --------------------------- *)
MaxActivations == 3   \* activations and reconnects that start
MaxRemovals == 2      \* upstream apps that are deleted

\* authSource.getAuth(authIndex): the parsed content of auth-<i>.json
GetAuth(M, i) == [appUrl |-> M.appUrl[i]]

\* fs.promises.writeFile(authFilePath, JSON.stringify(authData))
WriteAuthFile(M, i, authData) == [M EXCEPT !.appUrl[i] = authData.appUrl]

\* _updateAuthFile(authIndex): the cookies of the context are merged into
\* the content of the file, which keeps its other fields
UpdateAuthFile(M, i) ==
    IF i < 0 THEN M ELSE WriteAuthFile(M, i, GetAuth(M, i))

\* _saveAppUrlToAuth(authIndex, appUrl)
SaveAppUrlToAuth(M, i, appUrl) ==
    IF i < 0 THEN M
    ELSE WriteAuthFile(M, i, [GetAuth(M, i) EXCEPT !.appUrl = appUrl])

\* _clearAppUrlFromAuth(authIndex): delete authData.appUrl, write the file
ClearAppUrlKeepsFile(M, i) == M

ClearAppUrlFromAuth(M, i) ==
    IF i < 0 THEN M
    ELSE WriteAuthFile(M, i, [GetAuth(M, i) EXCEPT !.appUrl = Null])

\* what a step of the Manager writes
ManagerStep(M, op) ==
    /\ manager' = M
    /\ UNCHANGED <<vnc, agent>>
    /\ ev' = Ev(op, 0, 0, Null, NoValue)
    /\ UNCHANGED <<qvars, rvars, pvars, swvars>>

\* _navigateAndWakeUpPage up to its first page.goto: the saved app URL of
\* the identity is the target when the file has one, else the blank app
Navigate(M, i, reconnect) ==
    LET authData == GetAuth(M, i)
        saved == authData.appUrl # Null
        targetUrl == IF saved THEN authData.appUrl ELSE BlankUrl
    IN  [M EXCEPT !.pc = "goto", !.authIndex = i, !.reconnect = reconnect,
                  !.usingSavedUrl = saved, !.url = targetUrl,
                  !.visited = <<targetUrl>>, !.n = @ + 1]

\* launchOrSwitchContext(authIndex) up to the navigation: the state of the
\* outgoing identity is saved, the browser is launched when there is none,
\* the health monitor is stopped, the old context is closed; when getAuth
\* yields nothing for the new identity the method throws there, otherwise
\* the new context and its page are created from the file
LaunchOrSwitchContext(i) ==
    /\ manager.pc = "idle"
    /\ LET M == IF manager.browser
                THEN UpdateAuthFile(manager, manager.current) ELSE manager
       IN  \E storageStateObject \in {Null, "state"} :
              IF storageStateObject = Null
              THEN ManagerStep([M EXCEPT !.browser = TRUE,
                                         !.healthMonitorInterval = FALSE,
                                         !.page = 0,
                                         !.authIndex = i,
                                         !.reconnect = FALSE,
                                         !.n = @ + 1],
                               "launchThrew")
              ELSE ManagerStep(Navigate([M EXCEPT !.browser = TRUE,
                                                  !.healthMonitorInterval = FALSE,
                                                  !.pages = @ + 1,
                                                  !.page = M.pages + 1],
                                        i, FALSE),
                               "launch")

\* attemptLightweightReconnect() up to the navigation
AttemptLightweightReconnect ==
    /\ manager.pc = "idle"
    /\ manager.browser
    /\ manager.page # 0
    /\ manager.current >= 0
    /\ ManagerStep(Navigate([manager EXCEPT !.healthMonitorInterval = FALSE],
                            manager.current, TRUE),
                   "reconnect")

\* the activation fails: launchOrSwitchContext closes the browser
\* (closeBrowser clears the health monitor and every reference) and resets
\* _currentAuthIndex, the reconnect returns false
ActivationFails(M) ==
    IF M.reconnect
    THEN [M EXCEPT !.pc = "idle"]
    ELSE [M EXCEPT !.pc = "idle", !.browser = FALSE, !.current = -1,
                   !.page = 0, !.healthMonitorInterval = FALSE]

\* _navigateAndWakeUpPage after page.goto has loaded the target.  At a saved
\* URL the page is checked: a login redirect throws; a page-not-found (the
\* app is gone, or the text of its page matches) clears the saved URL and
\* navigates to the blank app.
PageLoaded ==
    /\ manager.pc = "goto"
    /\ \E loginRedirect \in BOOLEAN, textMatch \in BOOLEAN :
          LET i == manager.authIndex
              isPageNotFound == manager.url \notin manager.live \/ textMatch
          IN  IF ~manager.usingSavedUrl
              THEN /\ ~loginRedirect /\ ~textMatch
                   /\ ManagerStep([manager EXCEPT !.pc = "inject"],
                                  "pageLoaded")
              ELSE IF loginRedirect
              THEN /\ ~textMatch
                   /\ ManagerStep(ActivationFails(manager), "loginRedirect")
              ELSE IF isPageNotFound
              THEN ManagerStep(
                     [ClearAppUrlFromAuth(manager, i) EXCEPT
                        !.pc = "inject",
                        !.url = BlankUrl,
                        !.visited = Append(@, BlankUrl),
                        !.stale[i] = @ \cup {manager.url}],
                     "pageNotFound")
              ELSE ManagerStep([manager EXCEPT !.pc = "inject"], "pageLoaded")

\* _checkPageStatusAndErrors, _handlePopups and _injectScriptToEditor: on a
\* saved app URL the Remix flow is skipped; on the blank app of the new
\* editor _handleNewVersionRemix produces a new app and saves its URL.  Then
\* launchOrSwitchContext sets _currentAuthIndex and updates the file.  Any
\* of the steps may throw.  Remix opens the new app in a new page, which
\* replaces this.page.  The wait for the agent's initialization (90 s) ends
\* with systemInitialized set or, on its timeout, with a warning; then
\* _startHealthMonitor sets the interval, and launchOrSwitchContext starts
\* _startBackgroundWakeup on this.page.
InjectScriptToEditor ==
    /\ manager.pc = "inject"
    /\ \E ok \in BOOLEAN, isNewVersion \in BOOLEAN,
          systemInitialized \in BOOLEAN :
          LET i == manager.authIndex
              isOnSavedAppUrl == manager.url \in Links
              Done(M) ==
                  UpdateAuthFile(
                    [M EXCEPT !.pc = "idle", !.current = i,
                              !.systemInitialized = systemInitialized,
                              !.healthMonitorInterval = TRUE,
                              !.wake = IF M.reconnect THEN @
                                       ELSE @ \cup {M.page}], i)
          IN  IF ~ok
              THEN ~isNewVersion /\ ~systemInitialized
                     /\ ManagerStep(ActivationFails(manager), "activationFailed")
              ELSE IF isOnSavedAppUrl \/ ~isNewVersion
              THEN (isOnSavedAppUrl => ~isNewVersion)
                     /\ ManagerStep(Done(manager), "activated")
              ELSE \E finalUrl \in Links \ manager.made :
                      ManagerStep(
                        Done(SaveAppUrlToAuth(
                               [manager EXCEPT !.made = @ \cup {finalUrl},
                                               !.live = @ \cup {finalUrl},
                                               !.url = finalUrl,
                                               !.pages = @ + 1,
                                               !.page = manager.pages + 1],
                               i, finalUrl)),
                        "remixed")

\* the loop of _startBackgroundWakeup on page p finds at its next test that
\* p is closed or is no longer this.page, and ends
WakeLoopExits(p) ==
    /\ p \in manager.wake
    /\ p # manager.page
    /\ ManagerStep([manager EXCEPT !.wake = @ \ {p}], "wakeLoopExits")

\* an app is deleted upstream: its link leads to a page-not-found
AppRemoved(l) ==
    /\ l \in manager.live
    /\ ManagerStep([manager EXCEPT !.live = @ \ {l}], "appRemoved")

\* identity activation: the Manager launches, switches and reconnects one
\* activation at a time, while apps are deleted upstream
ActivationNext ==
    \/ \E i \in Identities :
          manager.n < MaxActivations /\ LaunchOrSwitchContext(i)
    \/ manager.n < MaxActivations /\ AttemptLightweightReconnect
    \/ PageLoaded
    \/ InjectScriptToEditor
    \/ \E l \in Links :
          Cardinality(manager.made \ manager.live) < MaxRemovals
              /\ AppRemoved(l)
    \/ \E p \in 1..(2 * MaxActivations) : WakeLoopExits(p)

SpecActivation == RegistryStateInit /\ [][ActivationNext]_vars

(* ------------------------------ CreateAuth ---------------------------- *)
\* what a step of CreateAuth writes
VncStep(V, op) ==
    /\ vnc' = V
    /\ ev' = Ev(op, 0, 0, Null, NoValue)
    /\ UNCHANGED <<qvars, rvars, pvars, swvars, manager, agent>>

\* this.currentVncAbortController.abort(), when there is a controller
AbortCurrent(V) ==
    IF V.currentVncAbortController # 0
    THEN [V EXCEPT !.aborted = @ \cup {V.currentVncAbortController}]
    ELSE V

\* the lock is taken and the controller of call n replaces the field, in
\* the synchronous stretch that found the lock free; the first checkAborted
\* finds the new signal not aborted, and the try block reaches its first
\* await
AcquireVncLock(V, n) ==
    [V EXCEPT !.isVncOperationInProgress = TRUE,
              !.currentVncAbortController = n,
              !.calls[n].pc = "setup"]

\* the finally block of startVncSession
ReleaseVncLock(V) ==
    [V EXCEPT !.isVncOperationInProgress = FALSE,
              !.currentVncAbortController = 0]

\* startVncSession(req, res) up to its first await: with the lock held the
\* call aborts the controller of the setup in progress and waits in the
\* loop, else it takes the lock
StartVncSession(n) ==
    /\ n = vnc.arrived + 1
    /\ vnc.calls[n].pc = "new"
    /\ LET V == [vnc EXCEPT !.arrived = n]
       IN  IF V.isVncOperationInProgress
           THEN VncStep([AbortCurrent(V) EXCEPT
                           !.calls[n].pc = "waiting",
                           !.calls[n].found = V.currentVncAbortController],
                        "vncWait")
           ELSE VncStep(AcquireVncLock(V, n), "vncSetup")

VncPollEntersOnTimeout(n) ==
    /\ vnc.calls[n].pc = "waiting"
    /\ \E expired \in BOOLEAN :
          IF vnc.isVncOperationInProgress
          THEN IF expired
               THEN VncStep(AcquireVncLock(AbortCurrent(vnc), n), "vncBusy")
               ELSE VncStep(AbortCurrent(vnc), "vncPoll")
          ELSE ~expired /\ VncStep(AcquireVncLock(vnc, n), "vncAcquired")

\* one turn of the waiting loop of call n, after its 200 ms: while the lock
\* is held the current controller is aborted again and, once 2.5 s have
\* passed since the call arrived (expired), the call answers 503 and
\* returns; with the lock free the loop ends and the call takes the lock
VncPoll(n) ==
    /\ vnc.calls[n].pc = "waiting"
    /\ \E expired \in BOOLEAN :
          IF vnc.isVncOperationInProgress
          THEN IF expired
               THEN VncStep([AbortCurrent(vnc) EXCEPT
                               !.calls[n].pc = "returned",
                               !.calls[n].status = 503],
                            "vncBusy")
               ELSE VncStep(AbortCurrent(vnc), "vncPoll")
          ELSE ~expired /\ VncStep(AcquireVncLock(vnc, n), "vncAcquired")

\* an await of the try block of call n settles.  A rejection (a step that
\* failed, or _waitForPort rejecting on the abort signal) and a
\* checkAborted that finds the signal aborted enter the catch block, which
\* awaits _cleanupVncSession.  After the last await and its checkAborted
\* the session is live: res.json, and the finally block releases the lock.
\* An await in the middle of the setup that settles with the signal not
\* aborted leaves this state as it is.
VncSetupStep(n) ==
    /\ vnc.calls[n].pc = "setup"
    /\ \E rejected \in BOOLEAN :
          IF n \in vnc.aborted
          THEN ~rejected
                 /\ VncStep([vnc EXCEPT !.calls[n].pc = "cleanup",
                                        !.calls[n].error = "VNC_SETUP_ABORTED"],
                            "vncAborted")
          ELSE IF rejected
          THEN VncStep([vnc EXCEPT !.calls[n].pc = "cleanup",
                                   !.calls[n].error = "startup"],
                       "vncFailed")
          ELSE VncStep([ReleaseVncLock(vnc) EXCEPT
                          !.calls[n].pc = "returned",
                          !.calls[n].status = 200],
                       "vncLive")

\* _cleanupVncSession in the catch block of call n has settled: the call
\* answers 499 for an aborted setup and 500 otherwise, and its finally
\* block releases the lock
VncCleanupDone(n) ==
    /\ vnc.calls[n].pc = "cleanup"
    /\ VncStep([ReleaseVncLock(vnc) EXCEPT
                  !.calls[n].pc = "returned",
                  !.calls[n].status =
                      IF vnc.calls[n].error = "VNC_SETUP_ABORTED"
                      THEN 499 ELSE 500],
               "vncCleaned")

\* the requests for a VNC session and the setups they start
VncNext ==
    \/ \E n \in VncRequests : StartVncSession(n)
    \/ \E n \in VncRequests : VncPoll(n)
    \/ \E n \in VncRequests : VncSetupStep(n)
    \/ \E n \in VncRequests : VncCleanupDone(n)

SpecVnc == RegistryStateInit /\ [][VncNext]_vars

(* ------------------------- the agent (ProxySystem) -------------------- *)
MaxReads == 2       \* chunks read from one response body

\* the texts TextDecoder.decode(value, { stream: true }) yields for a chunk:
\* a sequence of characters, empty when the chunk holds no complete one
Texts == {<<>>, <<"a">>, <<"b">>}

\* what a step of the agent writes
AgentStep(A, op) ==
    /\ agent' = A
    /\ ev' = Ev(op, 0, 0, Null, NoValue)
    /\ UNCHANGED <<qvars, rvars, pvars, swvars, manager, vnc>>

\* connectionManager.transmit(frame) by invocation t: the frame is sent on
\* the socket, with the request id of the invocation
Transmit(A, t, et, status, data) ==
    LET f == [msg |-> [Message(A.tasks[t].id, et) EXCEPT !.status = status],
              data |-> data, k |-> A.tasks[t].k]
    IN  [A EXCEPT !.wire = Append(@, f), !.tasks[t].frames = Append(@, f)]

TransmitChunkSendsEmpty(A, t, data) == Transmit(A, t, "chunk", 0, data)

\* _transmitChunk(data, operationId): nothing is sent for empty data
TransmitChunk(A, t, data) ==
    IF data = <<>> THEN A ELSE Transmit(A, t, "chunk", 0, data)

\* _transmitStreamEnd(operationId)
TransmitStreamEnd(A, t) == Transmit(A, t, "stream_close", 0, <<>>)

\* _sendErrorResponse(error, operationId) in the catch block of
\* _processProxyRequest: status is error.status, 0 when the error has none
AgentSendErrorResponse(A, t, status) ==
    Transmit(A, t, "error", IF status = 0 THEN 504 ELSE status, <<>>)

\* the finally block of _processProxyRequest: the entries of the request id
\* are deleted from activeOperations and cancelledOperations
ProcessFinally(A, t) ==
    LET id == A.tasks[t].id
    IN  [A EXCEPT !.activeOperations[id] = 0,
                  !.cancelledOperations = @ \ {id},
                  !.stale = @ \ {id},
                  !.tasks[t].pc = "done"]

\* the invocations for request id that have not reached their finally block
RunningTasks(A, id) ==
    {t \in 1..Len(A.tasks) : A.tasks[t].id = id /\ A.tasks[t].pc # "done"}

\* requestProcessor.cancelOperation(operationId): the id is added to
\* cancelledOperations, and the controller registered for it, if any, is
\* aborted
CancelOperation(A, id) ==
    LET c == A.activeOperations[id]
        A1 == [A EXCEPT !.cancelledOperations = @ \cup {id},
                        !.stale = IF RunningTasks(A, id) = {}
                                  THEN @ \cup {id} ELSE @]
    IN  IF c # 0 THEN [A1 EXCEPT !.tasks[c].aborted = TRUE] ELSE A1

\* _processProxyRequest(requestSpec) up to its first await, for the
\* proxy_request of attempt k of request id: with the id in
\* cancelledOperations it throws AbortError (error frame 504, finally), else
\* requestProcessor.execute registers a new controller under the id and
\* issues the fetch
ProcessProxyRequest(A, id, mode, k) ==
    LET t == Len(A.tasks) + 1
        task == [id |-> id, mode |-> mode, k |-> k, pc |-> "fetch",
                 aborted |-> FALSE, fullBody |-> <<>>, reads |-> <<>>,
                 frames |-> <<>>,
                 refused |-> IF id \notin A.cancelledOperations THEN Null
                             ELSE IF id \in A.stale THEN "stale" ELSE "live"]
        A1 == [A EXCEPT !.tasks = Append(@, task)]
    IN  IF id \in A.cancelledOperations
        THEN ProcessFinally(AgentSendErrorResponse(A1, t, 0), t)
        ELSE [A1 EXCEPT !.activeOperations[id] = t]

\* await responsePromise has settled for invocation t: rejected with
\* AbortError when its controller was aborted, with the upstream status when
\* the response is not ok; a response that is ok is forwarded
\* (_transmitHeaders) unless the id has been cancelled meanwhile
FetchSettled(A, t, status) ==
    IF A.tasks[t].aborted \/ A.tasks[t].id \in A.cancelledOperations
    THEN ProcessFinally(AgentSendErrorResponse(A, t, 0), t)
    ELSE IF status # 200
    THEN ProcessFinally(AgentSendErrorResponse(A, t, status), t)
    ELSE [Transmit(A, t, "response_headers", 200, <<>>) EXCEPT
             !.tasks[t].pc = "read"]

\* one turn of the read loop of invocation t: reader.read() has settled,
\* with done, or with a chunk whose decoded text is forwarded ("real") or
\* appended to fullBody ("fake"); it rejects when the controller was
\* aborted.  After done the fake mode forwards fullBody, then stream_close.
ReadSettled(A, t, done, text) ==
    IF A.tasks[t].aborted
    THEN ProcessFinally(AgentSendErrorResponse(A, t, 0), t)
    ELSE IF done
    THEN ProcessFinally(
           TransmitStreamEnd(
             IF A.tasks[t].mode = "fake"
             THEN TransmitChunk(A, t, A.tasks[t].fullBody)
             ELSE A, t), t)
    ELSE LET A1 == [A EXCEPT !.tasks[t].reads = Append(@, text)]
         IN  IF A.tasks[t].mode = "real"
             THEN TransmitChunk(A1, t, text)
             ELSE [A1 EXCEPT !.tasks[t].fullBody = @ \o text]

\* the agent receives the proxy_request of the next attempt of request id,
\* the only one with this streaming_mode
ProxyRequestReceived(id, mode) ==
    /\ \A t \in 1..Len(agent.tasks) : agent.tasks[t].mode # mode
    /\ AgentStep(ProcessProxyRequest(agent, id, mode, Len(agent.tasks) + 1),
                 "proxyRequest")

\* the agent receives a cancel_request for request id
CancelReceived(id) ==
    AgentStep(CancelOperation(agent, id), "cancelRequest")

AgentFetchSettles(t, status) ==
    /\ t \in 1..Len(agent.tasks)
    /\ agent.tasks[t].pc = "fetch"
    /\ AgentStep(FetchSettled(agent, t, status), "fetchSettled")

AgentReadSettles(t, done, text) ==
    /\ t \in 1..Len(agent.tasks)
    /\ agent.tasks[t].pc = "read"
    /\ done \/ Len(agent.tasks[t].reads) < MaxReads
    /\ AgentStep(ReadSettled(agent, t, done, text), "readSettled")

\* the agent alone: a proxy_request of each streaming mode and
\* cancel_request frames for one request id, the upstream responses and
\* their bodies
AgentNext ==
    \/ \E mode \in {"real", "fake"} : ProxyRequestReceived("r1", mode)
    \/ CancelReceived("r1")
    \/ \E t \in 1..Len(agent.tasks), status \in {200} \cup Statuses :
          AgentFetchSettles(t, status)
    \/ \E t \in 1..Len(agent.tasks), done \in BOOLEAN, text \in Texts :
          (done => text = <<>>) /\ AgentReadSettles(t, done, text)

SpecAgent == RegistryStateInit /\ [][AgentNext]_vars

(* ------------------- the retry loop and the agent --------------------- *)
MaxRetryArrivals == 1   \* requests that arrive

\* frame g was sent before frame f on the same socket for the same request:
\* the proxy_request of an attempt precedes the cancel_request sent while
\* the attempt is the current one, which precedes the next proxy_request
SentBefore(g, f) ==
    \/ g.attempt < f.attempt
    \/ g.attempt = f.attempt /\ g.type = "proxy_request"
                             /\ f.type = "cancel_request"

\* the agent of identity 0 receives a frame of the server, in the order of
\* sending: ProxySystem._handleIncomingMessage.  The requests of the retry
\* loop carry streaming_mode "fake".
AgentReceives(f) ==
    /\ f \in outbound \ agent.seen
    /\ f.auth = 0
    /\ SocketOf(0) \in connections
    /\ \A g \in outbound \ agent.seen :
          g.auth = f.auth /\ g.request_id = f.request_id => ~SentBefore(g, f)
    /\ LET A == [agent EXCEPT !.seen = @ \cup {f}]
       IN  IF f.type = "cancel_request"
           THEN AgentStep(CancelOperation(A, f.request_id), "cancelRequest")
           ELSE AgentStep(ProcessProxyRequest(A, f.request_id, "fake",
                                              f.attempt),
                          "proxyRequest")

\* the "message" event of the agent's socket at the server, for the oldest
\* frame on the wire: _handleIncomingMessage routes it to the queue
\* registered under its request id, if any
SocketMessage ==
    /\ Quiet
    /\ agent.wire # <<>>
    /\ connections # {}
    /\ LET f == Head(agent.wire)
           q == messageQueues[f.msg.request_id]
           H == IF q # 0 THEN RouteMessage(Heap, f.msg, q) ELSE Heap
       IN  /\ SetHeap(H)
           /\ ev' = Ev("message", q, 0, "parsed", f.msg)
           /\ agent' = [agent EXCEPT
                          !.wire = Tail(@),
                          !.tags = IF H.enqCount # enqCount
                                   THEN @ \cup {<<H.enqCount, f.k>>} ELSE @]
    /\ UNCHANGED <<closeCount, rvars, pvars, swvars, manager, vnc>>

\* one non-stream request through the retry loop, answered by the agent of
\* the current identity; the dequeue of an attempt may time out
RetryNext ==
    \/ \E r \in Clients :
          /\ hist.arrivals < MaxRetryArrivals
          /\ ConnectionByAuth(connections, currentAuthIndex)
          /\ ~isSystemBusy
          /\ Arrive(r, "nonstream", FALSE)
    \/ \E r \in Clients : FirstMessage(r)
    \/ \E r \in Clients : Wake(r)
    \/ \E r \in Clients : FailureSwitched(r)
    \/ \E r \in Clients : BodyDequeue(r)
    \/ \E r \in Clients : NextFrame(r)
    \/ \E r \in Clients : Finally(r)
    \/ \E f \in outbound : AgentReceives(f)
    \/ \E t \in 1..Len(agent.tasks), status \in {200} \cup Statuses :
          AgentFetchSettles(t, status)
    \/ \E t \in 1..Len(agent.tasks), done \in BOOLEAN :
          AgentReadSettles(t, done, IF done THEN <<>> ELSE <<"a">>)
    \/ SocketMessage
    \/ QTimeout

SpecRetry == WarmInit /\ [][RetryNext]_vars

(* ------------------------------- claims ------------------------------- *)
\* the proxy_request frames sent for request r
Proxied(r) == {f \in outbound : f.type = "proxy_request" /\ f.request_id = r}

\* C11: no proxy_request frame is sent to an agent while no identity is
\* active: every proxy_request was sent while currentAuthIndex was not -1
C11_NoDispatchWithoutIdentity ==
    \A f \in outbound : f.type = "proxy_request" => f.cur # -1

\* the retry delay of a request ended while no identity was active: its
\* second attempt sent no frame
C11_Witness ==
    \E r \in Clients :
        /\ ev.op = "wake" /\ ev.arg = r
        /\ currentAuthIndex = -1
        /\ req[r].attempt = 2
        /\ \E f \in Proxied(r) : f.attempt = 1
        /\ \A f \in Proxied(r) : f.attempt # 2

\* C12: at any time at most one switch or direct recovery is in progress,
\* isSystemBusy is set while it is, and a switch requested while
\* isSystemBusy is set starts nothing
C12_OneSwitchOrRecovery ==
    /\ Cardinality(ops) <= 1
    /\ ops # {} => isSystemBusy
    /\ \A c \in ev.calls : c.busy => opCount = c.n

\* a direct recovery is in progress and the switch the operator asked for
\* meanwhile was rejected
C12_Witness ==
    /\ \E c \in ev.calls : c.busy /\ c.kind = "switchToSpecific"
    /\ \E o \in ops : o.kind = "direct"
    /\ Cardinality(ops) = 1
    /\ isSystemBusy

\* the steps of _handleBrowserRecovery that can ask for a switch
RecoverySteps == {"arrive", "graceWaited", "directFailed"}

\* C13: when the recovery calls switchToNextAuth, isSystemBusy is not a flag
\* that the recovery itself has set and left set: the call is never rejected
\* because of the pipeline's own flag
C13_RecoveryNeverSelfRejects ==
    ev.op \in RecoverySteps =>
        \A c \in ev.calls :
            c.kind = "switchToNext" => ~(c.busy /\ c.setter = "pipeline")

\* a direct recovery has failed and the switch to the next identity that
\* its catch block asked for has started
C13_Witness ==
    /\ ev.op = "directFailed"
    /\ \E c \in ev.calls : c.kind = "switchToNext" /\ c.by = ev.arg /\ ~c.busy
    /\ \E o \in ops : o.kind = "switchToNext" /\ o.by = ev.arg
    /\ req[ev.arg].pc = "switchR"
    /\ isSystemBusy

\* C14: with switchOnUses = K > 0 a background rotation is scheduled for an
\* identity only once K generative requests have been counted on it, and at
\* most one is scheduled for that identity
C14_OneRotationAfterKth ==
    /\ hist.spawns <= 1
    /\ hist.spawns >= 1 => hist.uses >= switchOnUses

\* C15: with failureThreshold = T > 0, a failure whose status is not in
\* immediateSwitchStatusCodes starts a rotation only when it is the T-th
\* consecutive failure on the identity with no success in between, and
\* the T-th such failure does start one
C15_RotationAtThreshold ==
    \A r \in Clients :
        /\ (/\ req[r].pc = "switching"
            /\ req[r].error \notin immediateSwitchStatusCodes)
              => hist.streak >= failureThreshold
        /\ (/\ ev.op \in {"upstream_error", "timeout", "wake"}
            /\ ev.arg = r
            /\ req[r].pc = "returned")
              => hist.streak < failureThreshold

\* the step just taken consumed, as the first frame of an attempt of
\* request r, an error whose status is in immediateSwitchStatusCodes
ImmediateError(r) ==
    /\ ev.op = "upstream_error"
    /\ ev.arg = r
    /\ ev.msg.status \in immediateSwitchStatusCodes

\* the retry loop of r is over and no attempt follows the one that failed
NoRetryLeft(r) ==
    /\ req[r].pc \in {"switching", "returned"}
    /\ \A f \in Proxied(r) : f.attempt <= req[r].attempt

AnsweredImmediateError(r) ==
    /\ req[r].pc = "returned"
    /\ req[r].attempt = 1
    /\ \/ ImmediateError(r)
       \/ /\ ev.op = "failureSwitched"
          /\ ev.arg = r
          /\ req[r].error \in immediateSwitchStatusCodes

\* C17: a request whose first attempt is answered with status 429 is
\* answered with HTTP status 503, and every proxy_request is sent to the
\* identity that is current when it is sent
C17_ImmediateAnswered503 ==
    /\ \A r \in Clients : AnsweredImmediateError(r) => req[r].status = 503
    /\ \A f \in outbound : f.type = "proxy_request" => f.auth = f.cur

\* C18: the cancel_request of a failed attempt goes to the identity that
\* attempt was dispatched on, and the queue created for the next attempt is
\* bound to the identity the next proxy_request is sent on
C18_RetryFollowsIdentity ==
    \A r \in Clients :
        /\ \A c \in outbound :
              (c.type = "cancel_request" /\ c.request_id = r) =>
                  \E f \in Proxied(r) : f.attempt = c.attempt /\ f.auth = c.auth
        /\ \A f \in Proxied(r) :
              (/\ f.attempt >= 2
               /\ f.attempt = req[r].attempt
               /\ req[r].pc = "first"
               /\ messageQueues[r] # 0) => queueAuth[r] = f.auth

\* C19: when the client closes the connection of an unanswered request, a
\* cancel_request for it is sent to the identity its queue is bound to and
\* its queue is closed with reason client_disconnect; neither that step nor
\* the handler's step that sees the closed queue changes failureCount
C19_DisconnectCancelsAndCloses ==
    [][\A r \in Clients :
          /\ (ev'.op = "disconnect" /\ ev'.arg = r /\ messageQueues[r] # 0) =>
                /\ Sent("cancel_request", r, queueAuth[r], currentAuthIndex,
                        req[r].attempt) \in outbound'
                /\ queues'[messageQueues[r]].closed
                /\ queues'[messageQueues[r]].closeReason = "client_disconnect"
                /\ failureCount' = failureCount
          /\ (ev'.op = "reset" /\ ev'.arg = r /\ req[r].gone) =>
                failureCount' = failureCount]_vars

\* C20: the handler's step that finds the queue closed while an attempt
\* waits for its first frame, the client still being connected, ends the retry loop without a further
\* proxy_request, answers the request with status 503, leaves failureCount
\* alone and asks the switcher for nothing on behalf of the failure
C20_ClosedQueueAborts ==
    [][\A r \in Clients :
          (ev'.op = "reset" /\ ev'.arg = r /\ ~req[r].gone) =>
              /\ req'[r].pc = "returned"
              /\ {f \in outbound' : f.type = "proxy_request" /\ f.request_id = r}
                     = Proxied(r)
              /\ req'[r].status = 503
              /\ failureCount' = failureCount
              /\ \A c \in ev'.calls : c.by # r]_vars

\* C21: the handler's step after the idle timeout of an attempt's first
\* dequeue retries while attempts are left; when every attempt has timed
\* out the failure is counted and the request is answered with status 504
C21_TimeoutIs504 ==
    \A r \in Clients :
        (ev.op = "timeout" /\ ev.arg = r) =>
            /\ req[r].attempt < maxRetries => req[r].pc = "sleep"
            /\ (/\ req[r].attempt = maxRetries
                /\ \A k \in 1..Len(resolvers) : resolvers[k].outcome = TimedOut)
                  => /\ failureCount >= 1
                     /\ IF req[r].pc = "switching"
                        THEN req[r].error = 504
                        ELSE req[r].status = 504

\* C22: after the handler's step that takes a first frame that is no error,
\* failureCount is 0, whatever the kind of the request
C22_SuccessResetsFailures ==
    ev.op = "success" => failureCount = 0

\* C23: while an identity is current its usage counter is the number of
\* generative requests that have passed the gate since it became current:
\* one per request however many attempts it takes and however it ends, and
\* none for a request that is not generative
C23_UsageCountsGenerative ==
    currentAuthIndex # -1 => usageCount = hist.uses

\* a generative request has failed on its second attempt and was counted
\* once
C23_Witness ==
    \E r \in Clients :
        /\ req[r].generative
        /\ req[r].attempt = 2
        /\ req[r].pc = "returned"
        /\ req[r].status = 500
        /\ currentAuthIndex # -1
        /\ usageCount = 1

\* C24: the background switch for the usage threshold is started in the
\* finalization of the request that set needsSwitchingAfterRequest, when no
\* request that set it is still being served
C24_RotationAfterOwnResponse ==
    \A c \in ev.calls :
        c.by = "background" =>
            /\ ev.arg \in RequestIds
            /\ req[ev.arg].marked
            /\ \A q \in RequestIds : req[q].marked => req[q].pc = "returned"

\* the thought parts and the other parts of the response of request r
ThoughtParts(r) == SelectSeq(req[r].fullData.parts, LAMBDA p : p.thought = TRUE)
ContentParts(r) == SelectSeq(req[r].fullData.parts, LAMBDA p : p.thought # TRUE)

\* C25 as stated: with thought parts exactly two records are written, the
\* thought parts without finishReason and the content parts with it;
\* without thought parts exactly one record is written
C25_TwoRecordsOrOne ==
    \A r \in Clients :
        req[r].pc = "written" =>
            IF Len(ThoughtParts(r)) > 0
            THEN /\ Len(req[r].written) = 2
                 /\ req[r].written[1] =
                        [parts |-> ThoughtParts(r), finishReason |-> Null]
                 /\ req[r].written[2] =
                        [parts |-> ContentParts(r),
                         finishReason |-> req[r].fullData.finishReason]
            ELSE Len(req[r].written) = 1

\* C25 amended: the second record is written when there is a content part
\* or a finishReason; a response with neither gets the thought record alone,
\* or no record at all
C25_RecordsWritten ==
    \A r \in Clients :
        req[r].pc = "written" =>
            LET last == [parts |-> ContentParts(r),
                         finishReason |-> req[r].fullData.finishReason]
                closing == Len(ContentParts(r)) > 0
                               \/ req[r].fullData.finishReason # Null
            IN  req[r].written =
                    (IF Len(ThoughtParts(r)) > 0
                     THEN <<[parts |-> ThoughtParts(r), finishReason |-> Null]>>
                     ELSE <<>>)
                    \o (IF closing THEN <<last>> ELSE <<>>)

\* a response with thought parts and content parts in mixed order has been
\* written as two records
C25_Witness ==
    \E r \in Clients :
        /\ req[r].pc = "written"
        /\ Len(ThoughtParts(r)) = 2
        /\ Len(ContentParts(r)) = 2
        /\ req[r].fullData.parts[1].thought = FALSE
        /\ req[r].fullData.finishReason = "STOP"
        /\ Len(req[r].written) = 2

\* C26: once the first chunk of a streamed response has been written and
\* the socket of the identity the request was sent to is gone, no step
\* writes a further record (chunk or error) to that response, and the
\* handler that returns has ended the response
C26_NothingAfterSocketKill ==
    [][\A r \in Clients :
          (/\ req[r].mode \in {"real", "openai"}
           /\ Len(req[r].written) >= 1
           /\ req[r].written[1] = "chunk"
           /\ ~ConnectionByAuth(connections, req[r].auth))
          => /\ req'[r].written = req[r].written
             /\ req'[r].pc = "returned" => req'[r].ended]_vars

\* C27: no proxy_request, of a first attempt or of a retry, is sent at a
\* moment when isSystemBusy is true: isSystemBusy is false after every step
\* that sends one
C27_NoDispatchWhileBusy ==
    [][\A f \in outbound' \ outbound :
          f.type = "proxy_request" => ~isSystemBusy']_vars

C31_InitTimeoutFailsActivation ==
    ev.op \in {"activated", "remixed"} => manager.systemInitialized

\* C32: whenever no activation is in progress, the current page has its
\* health-monitor ticker and its wake loop running: no launch and no
\* lightweight reconnect leaves the current page without one of them
C32_CurrentPageHasTickerAndWakeLoop ==
    (manager.pc = "idle" /\ manager.page # 0 /\ manager.current >= 0)
        => manager.healthMonitorInterval /\ manager.page \in manager.wake

\* C38: whenever launchOrSwitchContext throws, _currentAuthIndex is -1
\* afterwards: no failed launch leaves it at an identity whose context the
\* launch has closed
C38_ThrowResetsCurrentAuthIndex ==
    (\/ ev.op = "launchThrew"
     \/ ev.op \in {"loginRedirect", "activationFailed"} /\ ~manager.reconnect)
        => manager.current = -1

\* C37: once the client-disconnect handler has run for a request, no
\* proxy_request is sent for it any more: no attempt is forwarded to the
\* agent for a request whose client has gone, the attempt that follows a
\* retry delay included
C37_NoForwardAfterDisconnect ==
    \A r \in RequestIds :
        (ev.op = "forward" /\ ev.arg = r) => ~req[r].gone

\* C39: every pending grace timer is the one the registry holds in
\* reconnectGraceTimer, so that the next socket open cancels it, and no
\* grace timer expires after a socket has opened during its 60 s
C39_PendingTimerTrackedAndCancelled ==
    /\ graceTimers \subseteq {reconnectGraceTimer}
    /\ fired \cap reopened = {}

\* C40: the registry closes the queues for a lost connection and invokes
\* onConnectionLost only while no agent socket is connected: every expiry
\* of a grace timer finds the set of sockets empty
C40_LossOnlyWithoutSockets ==
    ev.op = "graceExpire" => connections = {}

\* the calls of startVncSession that hold the VNC operation lock: inside
\* the try block or its catch block
VncHolders == {n \in VncRequests : vnc.calls[n].pc \in {"setup", "cleanup"}}

\* C34: a request for a VNC session that arrives while a setup is in
\* progress aborts that setup, which never becomes the live session, and at
\* no time do two setups hold the VNC operation lock, however many requests
\* wait for it: the lock is held exactly while one call is in its setup,
\* and the controller in the field is that call's
C34_NewerAbortsAndOneHolder ==
    /\ Cardinality(VncHolders) <= 1
    /\ vnc.isVncOperationInProgress <=> VncHolders # {}
    /\ \A n \in VncHolders : vnc.currentVncAbortController = n
    /\ \A m \in VncRequests :
          LET h == vnc.calls[m].found
          IN  h # 0 => /\ h \in vnc.aborted
                       /\ h < m
                       /\ vnc.calls[h].status # 200

\* two requests waited for the lock at the same time while a third held it;
\* the setup they found was aborted, and the newest of them holds the lock
\* while the other still waits
C34_Witness ==
    /\ vnc.calls[1].status = 499
    /\ vnc.calls[2].pc = "waiting" /\ vnc.calls[2].found = 1
    /\ vnc.calls[3].pc = "setup" /\ vnc.calls[3].found = 1
    /\ 3 \in vnc.aborted

\* the data of the chunk frames invocation t has transmitted, in order
ChunkData(t) ==
    LET fs == SelectSeq(agent.tasks[t].frames,
                        LAMBDA f : f.msg.event_type = "chunk")
    IN  [i \in 1..Len(fs) |-> fs[i].data]

RECURSIVE Flat(_)
Flat(texts) == IF texts = <<>> THEN <<>> ELSE Head(texts) \o Flat(Tail(texts))

\* invocation t has read its body to the end and sent stream_close
Completed(t) ==
    LET fs == agent.tasks[t].frames
    IN  fs # <<>> /\ fs[Len(fs)].msg.event_type = "stream_close"

\* C33 as stated: in real mode one chunk frame for each chunk read; in
\* fake mode, once the body is read, exactly one chunk frame with the whole
\* body
C33_OneFramePerChunk ==
    \A t \in 1..Len(agent.tasks) :
        /\ agent.tasks[t].mode = "real"
             => /\ Len(ChunkData(t)) = Len(agent.tasks[t].reads)
                /\ ChunkData(t) = agent.tasks[t].reads
        /\ agent.tasks[t].mode = "fake" /\ Completed(t)
             => ChunkData(t) = <<Flat(agent.tasks[t].reads)>>

\* C33, amended: in real mode the chunk frames are the non-empty texts
\* read, in read order; in fake mode there is no chunk frame before the
\* last read, and then one with the whole body when it is not empty; the
\* frames of an invocation that completes are the headers, its chunk
\* frames and stream_close, in this order
C33_OneFramePerNonEmptyChunk ==
    \A t \in 1..Len(agent.tasks) :
        LET T == agent.tasks[t]
            body == Flat(T.reads)
        IN  /\ T.mode = "real"
                 => ChunkData(t) = SelectSeq(T.reads, LAMBDA x : x # <<>>)
            /\ T.mode = "fake"
                 => ChunkData(t) = IF Completed(t) /\ body # <<>>
                                   THEN <<body>> ELSE <<>>
            /\ Completed(t)
                 => /\ T.frames[1].msg.event_type = "response_headers"
                    /\ \A i \in 2..(Len(T.frames) - 1) :
                          T.frames[i].msg.event_type = "chunk"

\* a real-mode invocation forwarded two chunks in read order and a
\* fake-mode invocation forwarded the body of its two chunks once, both
\* followed by stream_close
C33_Witness ==
    /\ Len(agent.tasks) = 2
    /\ \E t \in 1..2 :
          /\ agent.tasks[t].mode = "real" /\ Completed(t)
          /\ agent.tasks[t].reads = <<<<"a">>, <<"b">>>>
          /\ ChunkData(t) = <<<<"a">>, <<"b">>>>
    /\ \E t \in 1..2 :
          /\ agent.tasks[t].mode = "fake" /\ Completed(t)
          /\ agent.tasks[t].reads = <<<<"a">>, <<"b">>>>
          /\ ChunkData(t) = << <<"a", "b">> >>

\* C35: a proxy_request that the agent receives after a cancel_request for
\* the same id is executed when that cancel_request came while no
\* invocation for the id was running: no invocation is refused because of
\* such a cancel_request
C35_StaleCancelNeverRefuses ==
    \A t \in 1..Len(agent.tasks) : agent.tasks[t].refused # "stale"

\* C36: a frame the agent emitted for attempt k of a request is never the
\* frame that settles a dequeue of another attempt of the request
C36_FrameStaysInItsAttempt ==
    \A r \in Clients :
        (/\ req[r].pc \in {"first", "next"}
         /\ req[r].awaiting # 0
         /\ resolvers[req[r].awaiting].outcome.kind = "frame")
            => \A p \in agent.tags :
                  p[1] = resolvers[req[r].awaiting].outcome.frame.seq
                      => p[2] = req[r].attempt

=============================================================================
